---- MODULE Spec2Model ----
(***************************************************************************)
(* State-machine model of the DJN-Broker trading bot's decision core:      *)
(*   - PositionManager.should_close_position / manage_positions            *)
(*   - alpaca_broker.execute_orders and the entry-time tracking file       *)
(*   - TradeMemory.store_trade over its JSON backing file                  *)
(*   - StrategyOptimizer.optimize_strategy                                 *)
(*   - the trading cycle of main.run_once                                  *)
(*                                                                         *)
(* Units.  Percentages (unrealized_plpc, take_profit_pct, stop_loss_pct)   *)
(* are integers in per-mille (0.05 = 50).  Times are integers in hours.    *)
(* Money is in hundredths of a cent.  Sentiment is in hundredths (0.7=70). *)
(***************************************************************************)
EXTENDS Integers, Sequences, FiniteSets, TLC

VARIABLES
    \* ---- PositionManager.should_close_position called on its own ----
    pm_self,        \* the PositionManager's configuration fields
    position,       \* the position dict handed to should_close_position
    entry_time,     \* the entry_time argument (None or Some(hour))
    clock,          \* datetime.now() at the call, in hours
    decision,       \* the (should_close, reason) returned, NoDecision before the call
    \* ---- TradeMemory: the JSON file behind the trade ledger ----
    trades_file,    \* storage/learning/trades_history.json: [state, data]
    learnings_file, \* storage/learning/learnings.json: [state, data]
    performance_file, \* storage/learning/performance_metrics.json: [state, data]
    mem_log,        \* what the latest TradeMemory call logged about its file accesses
    \* ---- cycles sharing one TradeMemory ----
    writer,         \* per cycle: where it is inside store_trade, and its local list
    returned,       \* the order ids of the trades whose store_trade call has returned
    overlapped,     \* TRUE once a store_trade call began while another was under way
    io_failed,      \* TRUE once a load or a save of the ledger logged a failure
    \* ---- StrategyOptimizer ----
    paper_mode,     \* StrategyOptimizer.paper_mode, set at construction
    params,         \* the strategy parameters, fed back into optimize_strategy
    current_params, \* StrategyOptimizer.current_params ({} is None)
    applied,        \* the recommendations of the latest optimize_strategy call
    passed_config,  \* the dict handed to the latest optimize_strategy call, after the call
    pause,          \* what the latest should_pause_trading call returned
    filter_in,      \* the signals handed to this cycle's filter_signals_by_learning call
    filter_out,     \* the list that call returned
    \* ---- PerformanceAnalyzer ----
    an_metrics,     \* the metrics returned by the latest analyze_performance call
    an_recs,        \* what the latest get_strategy_recommendations call returned
    \* ---- the signal generators of trade/strategy.py ----
    sig_in,         \* the arguments of the call: prices, sentiment feed, thresholds, insights
    sig_out,        \* the (signals, avg_sent) returned, with the generator called
    \* ---- schedule_runner ----
    scheduler,      \* "running" while the loop of schedule_runner.main is alive
    job_log,        \* one entry per job() started: what failed in it and how it ended
    \* ---- trade/live_broker.py ----
    broker,         \* the AlpacaBroker object: its settings and its counters
    live_hist,      \* whether STOP_TRADING.txt existed at construction; the latest place_order
    \* ---- the broker account, the tracking file and the trading cycle ----
    cfg,            \* config.yaml as loaded: capital_eur, risk, trading_style
    kill_switch,    \* TRUE iff the file STOP_TRADING.txt exists
    held,           \* the symbols with an open position at the broker
    tracking,       \* position_tracking.json: symbol -> entry time (None if absent)
    next_order_id,  \* the id the broker gives to the next accepted order
    pc,             \* the cycle's position in run_once
    signals,        \* the signals generated in the current cycle
    res,            \* the dict returned by the cycle's execute_orders call
    exec_log,       \* what execute_orders logged: how it started, one line per signal
    summary         \* the summary record written at the end of the cycle

closeVars == << pm_self, position, entry_time, decision >>
concVars == << writer, returned, overlapped, io_failed >>
memVars == << trades_file, learnings_file, performance_file, mem_log, concVars >>
filterVars == << filter_in, filter_out >>
optVars == << paper_mode, params, current_params, applied, passed_config, pause, filterVars >>
anVars == << an_metrics, an_recs >>
sigVars == << sig_in, sig_out >>
schedVars == << scheduler, job_log >>
liveVars == << broker, live_hist >>
cycleVars ==
    << cfg, kill_switch, held, tracking, next_order_id, pc, signals, res, exec_log, summary >>

vars == << closeVars, clock, memVars, optVars, cycleVars, anVars, sigVars, schedVars, liveVars >>

----------------------------------------------------------------------------
(* Helpers *)

Min(a, b) == IF a <= b THEN a ELSE b
Max(a, b) == IF a >= b THEN a ELSE b

\* Optional values: None is the empty tuple, a present value v is << v >>.
None == << >>
Some(v) == << v >>
IsSome(o) == o # << >>
TheValue(o) == o[1]

NoDecision == << >>

----------------------------------------------------------------------------
(* trade/position_manager.py *)

\* timedelta.days of a hold time given in hours: the floor of hours / 24.
HoursPerDay == 24
hold_days_of(hold_hours) == hold_hours \div HoursPerDay

\* The small-loss band of the max-hold rule: unrealized_pl_pct > -0.01.
SmallLossBand == 10

\* should_close_position with the minimum-hold rule moved in front of the
\* price rules.
should_close_position_time_first(self, pos, entry, now_) ==
    LET unrealized_pl_pct == pos.unrealized_plpc IN
    IF self.trading_style = "swing" /\ IsSome(entry)
         /\ now_ - TheValue(entry) < self.min_hold_hours
      THEN << FALSE, "min_hold_not_met" >>
    ELSE IF unrealized_pl_pct >= self.take_profit_pct
      THEN << TRUE, "take_profit" >>
    ELSE IF unrealized_pl_pct <= -self.stop_loss_pct
      THEN << TRUE, "stop_loss" >>
    ELSE IF self.trading_style = "swing" /\ IsSome(entry)
      THEN IF hold_days_of(now_ - TheValue(entry)) >= self.max_hold_days
             THEN IF unrealized_pl_pct > 0
                    THEN << TRUE, "max_hold_time_profit" >>
                  ELSE IF unrealized_pl_pct > -SmallLossBand
                    THEN << TRUE, "max_hold_time_small_loss" >>
                  ELSE << FALSE, "hold_for_stop_loss" >>
           ELSE << FALSE, "hold" >>
    ELSE << FALSE, "hold" >>

\* should_close_position with the small-loss band closed at -1%
\* (unrealized_pl_pct >= -0.01).
should_close_position_wide_band(self, pos, entry, now_) ==
    LET unrealized_pl_pct == pos.unrealized_plpc IN
    IF unrealized_pl_pct >= self.take_profit_pct
      THEN << TRUE, "take_profit" >>
    ELSE IF unrealized_pl_pct <= -self.stop_loss_pct
      THEN << TRUE, "stop_loss" >>
    ELSE IF self.trading_style = "swing" /\ IsSome(entry)
      THEN IF now_ - TheValue(entry) < self.min_hold_hours
             THEN << FALSE, "min_hold_not_met" >>
           ELSE IF hold_days_of(now_ - TheValue(entry)) >= self.max_hold_days
             THEN IF unrealized_pl_pct > 0
                    THEN << TRUE, "max_hold_time_profit" >>
                  ELSE IF unrealized_pl_pct >= -SmallLossBand
                    THEN << TRUE, "max_hold_time_small_loss" >>
                  ELSE << FALSE, "hold_for_stop_loss" >>
           ELSE << FALSE, "hold" >>
    ELSE << FALSE, "hold" >>

\* PositionManager.should_close_position(position, entry_time), with now_
\* standing for datetime.now(timezone.utc).
should_close_position(self, pos, entry, now_) ==
    LET unrealized_pl_pct == pos.unrealized_plpc IN
    IF unrealized_pl_pct >= self.take_profit_pct
      THEN << TRUE, "take_profit" >>
    ELSE IF unrealized_pl_pct <= -self.stop_loss_pct
      THEN << TRUE, "stop_loss" >>
    ELSE IF self.trading_style = "swing" /\ IsSome(entry)
      THEN LET hold_hours == now_ - TheValue(entry)
               hold_days == hold_days_of(hold_hours)
           IN  IF hold_hours < self.min_hold_hours
                 THEN << FALSE, "min_hold_not_met" >>
               ELSE IF hold_days >= self.max_hold_days
                 THEN IF unrealized_pl_pct > 0
                        THEN << TRUE, "max_hold_time_profit" >>
                      ELSE IF unrealized_pl_pct > -SmallLossBand
                        THEN << TRUE, "max_hold_time_small_loss" >>
                      ELSE << FALSE, "hold_for_stop_loss" >>
               ELSE << FALSE, "hold" >>
    ELSE << FALSE, "hold" >>

----------------------------------------------------------------------------
(* learning/trade_memory.py *)

Tickers == {"AAPL", "MSFT"}

MissingFile == [state |-> "missing", data |-> << >>]
CorruptFile == [state |-> "corrupt", data |-> << >>]
FileOf(data) == [state |-> "ok", data |-> data]

\* What open(..., 'w') + json.dump can do to the file: succeed, fail before
\* the file is opened (file untouched), or fail after open() has truncated it.
WriteOutcomes == {"ok", "open_fails", "dump_fails"}

\* TradeMemory._load_json(filepath, default).  read_ok = FALSE is an
\* exception raised by open() or json.load() on an existing file.
load_json(file, default, read_ok) ==
    IF file.state = "missing" THEN default
    ELSE IF file.state = "ok" /\ read_ok THEN file.data
    ELSE default

\* TradeMemory._save_json(filepath, data): the file afterwards.
save_json(file, data, write_outcome) ==
    IF write_outcome = "ok" THEN FileOf(data)
    ELSE IF write_outcome = "open_fails" THEN file
    ELSE CorruptFile

\* The trade dict after store_trade has stamped it.
stamp_trade(trade, now_) ==
    [ticker |-> trade.ticker, action |-> trade.action, notional |-> trade.notional,
     order_id |-> trade.order_id, status |-> trade.status, pnl |-> trade.pnl,
     timestamp |-> now_]

\* TradeMemory.store_trade(trade): the trades file afterwards.
store_trade(file, trade, now_, read_ok, write_outcome) ==
    LET trades == load_json(file, << >>, read_ok)
    IN  save_json(file, Append(trades, stamp_trade(trade, now_)), write_outcome)

\* store_trade up to its append: the local list `trades` once the stamped
\* trade has been appended to what _load_json returned.  The variant starts
\* from an empty list instead of the file's content.
store_trade_load_fresh(file, trade, now_, read_ok) == << stamp_trade(trade, now_) >>
store_trade_load(file, trade, now_, read_ok) ==
    Append(load_json(file, << >>, read_ok), stamp_trade(trade, now_))

\* store_trade from its _save_json call on: the trades file afterwards.
store_trade_save(file, trades, write_outcome) == save_json(file, trades, write_outcome)

\* The log.error lines of one TradeMemory call: "Failed to load" from
\* _load_json (an existing file that cannot be read or parsed) and "Failed to
\* save" from _save_json.
NoMemLog == [load_failed |-> FALSE, save_failed |-> FALSE]
load_log(file, read_ok) ==
    [load_failed |-> file.state # "missing" /\ ~(file.state = "ok" /\ read_ok),
     save_failed |-> FALSE]
store_log(file, read_ok, write_outcome) ==
    [load_failed |-> load_log(file, read_ok).load_failed,
     save_failed |-> write_outcome # "ok"]

\* The dict of performance_metrics.json, with the keys its readers use; a
\* key that is absent is None.  {} has no key at all.
EmptyMetrics == [total_trades |-> None, total_pnl |-> None, win_rate |-> None]

\* TradeMemory.get_performance_metrics()
get_performance_metrics(file, read_ok) == load_json(file, EmptyMetrics, read_ok)

\* The ledger a reader sees: the file's list, empty when there is none.
Ledger(file) == IF file.state = "ok" THEN file.data ELSE << >>

----------------------------------------------------------------------------
(* learning/strategy_optimizer.py *)

\* An exact fraction num/den, for the multiplicative TP/SL adjustments.
Frac(n, d) == [num |-> n, den |-> d]
FracTimes(f, n, d) == [num |-> f.num * n, den |-> f.den * d]

\* The 'action' values PerformanceAnalyzer._generate_insights stores.
Actions ==
    {"maintain_strategy", "increase_sentiment_threshold", "lower_sentiment_threshold",
     "adjust_take_profit_stop_loss", "focus_on_best_performers"}

PaperMinSentiment == 10
SentimentStep == 5
SentimentCeiling == 70
SentimentFloor == 20
WinRateHigh == 60
WinRateLow == 40
DefaultWinRate == 50

\* The loop body without the min(..., 0.7) and max(..., 0.2) clamps.
apply_adjustment_unclamped(optimized, action, best_stocks) ==
    IF action = "increase_sentiment_threshold"
      THEN [optimized EXCEPT !.min_sentiment = optimized.min_sentiment + SentimentStep]
    ELSE IF action = "lower_sentiment_threshold"
      THEN [optimized EXCEPT !.min_sentiment = optimized.min_sentiment - SentimentStep]
    ELSE IF action = "adjust_take_profit_stop_loss"
      THEN [optimized EXCEPT !.take_profit_pct = FracTimes(@, 12, 10),
                             !.stop_loss_pct = FracTimes(@, 9, 10)]
    ELSE IF action = "focus_on_best_performers"
      THEN IF best_stocks # << >>
             THEN [optimized EXCEPT !.focus_stocks = Some(best_stocks)]
             ELSE optimized
    ELSE optimized

\* One pass of the loop "for adj in recommendations.get('adjustments', [])".
apply_adjustment(optimized, action, best_stocks) ==
    IF action = "increase_sentiment_threshold"
      THEN [optimized EXCEPT !.min_sentiment =
                Min(optimized.min_sentiment + SentimentStep, SentimentCeiling)]
    ELSE IF action = "lower_sentiment_threshold"
      THEN [optimized EXCEPT !.min_sentiment =
                Max(optimized.min_sentiment - SentimentStep, SentimentFloor)]
    ELSE IF action = "adjust_take_profit_stop_loss"
      THEN [optimized EXCEPT !.take_profit_pct = FracTimes(@, 12, 10),
                             !.stop_loss_pct = FracTimes(@, 9, 10)]
    ELSE IF action = "focus_on_best_performers"
      THEN IF best_stocks # << >>
             THEN [optimized EXCEPT !.focus_stocks = Some(best_stocks)]
             ELSE optimized
    ELSE optimized

RECURSIVE apply_adjustments(_, _, _)
apply_adjustments(optimized, adjustments, best_stocks) ==
    IF adjustments = << >> THEN optimized
    ELSE apply_adjustments(apply_adjustment(optimized, Head(adjustments), best_stocks),
                           Tail(adjustments), best_stocks)

\* The position-size step at the end of optimize_strategy; win_rate is
\* metrics.get('win_rate', 0.5), in percent.
size_by_win_rate(optimized, metrics_win_rate) ==
    LET win_rate == IF IsSome(metrics_win_rate) THEN TheValue(metrics_win_rate)
                    ELSE DefaultWinRate
    IN  IF win_rate > WinRateHigh
          THEN [optimized EXCEPT !.position_size_multiplier = Some(120)]
        ELSE IF win_rate < WinRateLow
          THEN [optimized EXCEPT !.position_size_multiplier = Some(80)]
        ELSE optimized

\* optimize_strategy without the early return of paper mode.
optimize_strategy_paper_learns(is_paper, base_config, recommendations, metrics_win_rate, best_stocks) ==
    LET start == IF is_paper THEN [base_config EXCEPT !.min_sentiment = PaperMinSentiment]
                 ELSE base_config
    IN  IF ~recommendations.ready THEN start
        ELSE size_by_win_rate(
                 apply_adjustments(start, recommendations.adjustments, best_stocks),
                 metrics_win_rate)

\* StrategyOptimizer.optimize_strategy(base_config): the dict returned.
\* recommendations is what analyzer.get_strategy_recommendations() returned,
\* metrics_win_rate what memory.get_performance_metrics() holds, best_stocks
\* what memory.get_best_performing_stocks(limit=3) returns.
optimize_strategy(is_paper, base_config, recommendations, metrics_win_rate, best_stocks) ==
    IF is_paper
      THEN [base_config EXCEPT !.min_sentiment = PaperMinSentiment]
    ELSE IF ~recommendations.ready
      THEN base_config
    ELSE size_by_win_rate(
             apply_adjustments(base_config, recommendations.adjustments, best_stocks),
             metrics_win_rate)

\* The dict the caller handed in, after the call: optimize_strategy works on
\* base_config.copy() and never writes to base_config.
base_config_after(base_config, optimized) == base_config

\* self.current_params after the call: assigned only on the live, ready path.
current_params_after(is_paper, old, optimized, recommendations) ==
    IF ~is_paper /\ recommendations.ready THEN Some(optimized) ELSE old

\* should_pause_trading: money in cents.
PauseMinTrades == 10
PauseLossFloor == -10000

\* should_pause_trading with the trade count not looked at.
should_pause_trading_any_count(is_paper, metrics) ==
    IF is_paper THEN FALSE
    ELSE LET total_pnl == IF IsSome(metrics.total_pnl) THEN TheValue(metrics.total_pnl) ELSE 0
         IN  total_pnl < PauseLossFloor

\* StrategyOptimizer.should_pause_trading(); metrics is what
\* memory.get_performance_metrics() returned.
should_pause_trading(is_paper, metrics) ==
    IF is_paper THEN FALSE
    ELSE LET total_pnl == IF IsSome(metrics.total_pnl) THEN TheValue(metrics.total_pnl) ELSE 0
             total_trades == IF IsSome(metrics.total_trades)
                               THEN TheValue(metrics.total_trades) ELSE 0
         IN  total_trades >= PauseMinTrades /\ total_pnl < PauseLossFloor

----------------------------------------------------------------------------
(* trade/alpaca_broker.py *)

\* Money is counted in hundredths of a cent, so that capital * 0.25 of a
\* capital given in cents is exact.
Dollars(d) == d * 10000
Cents(c) == c * 100

\* Python's round(x, 2) of an amount: to the nearest cent, an exact half cent
\* to the even cent.
round2(x) ==
    LET q == x \div 100
        r == x % 100
    IN  IF r > 50 THEN (q + 1) * 100
        ELSE IF r < 50 THEN q * 100
        ELSE IF q % 2 = 0 THEN q * 100 ELSE (q + 1) * 100

\* capital * max_alloc_per_trade, max_alloc_per_trade given in percent.
max_alloc_of(capital, max_alloc_per_trade) == (capital * max_alloc_per_trade) \div 100

\* track_position_entry(ticker, order_id, notional, submitted_at): the
\* "positions" map of position_tracking.json afterwards.
track_position_entry(positions_map, ticker, submitted_at) ==
    [positions_map EXCEPT ![ticker] = Some(submitted_at)]

\* remove_position_tracking(ticker): the "positions" map afterwards.
remove_position_tracking(positions_map, ticker) ==
    [positions_map EXCEPT ![ticker] = None]

\* get_position_entry_time(ticker)
get_position_entry_time(positions_map, ticker) == positions_map[ticker]

\* An error return that reports no cash left.
error_result_no_cash(capital) ==
    [orders |-> << >>, cash_left |-> 0, error |-> TRUE, executed_count |-> None]

\* The dict execute_orders returns when there is no client or no account info.
error_result(capital) ==
    [orders |-> << >>, cash_left |-> capital, error |-> TRUE, executed_count |-> None]

\* The loop body without "cash -= alloc".
execute_one_keeps_cash(st, signal, capital, max_alloc_per_trade, submit_ok, now_) ==
    LET ticker == signal.ticker
        action == signal.action
        alloc == Min(st.cash, max_alloc_of(capital, max_alloc_per_trade))
        line(kind) == [ticker |-> ticker, kind |-> kind, alloc |-> alloc,
                       cash_before |-> st.cash]
    IN  IF alloc <= 0
          THEN [st EXCEPT !.log = Append(@, line("skipped"))]
        ELSE IF ~submit_ok
          THEN [st EXCEPT !.log = Append(@, line("failed"))]
        ELSE [cash |-> st.cash,
              executed_orders |-> Append(st.executed_orders,
                  [ticker |-> ticker, action |-> action, notional |-> round2(alloc),
                   order_id |-> st.next_order_id, submitted_at |-> now_]),
              held |-> IF action = "BUY" THEN st.held \cup {ticker}
                       ELSE st.held \ {ticker},
              tracking |-> IF action = "BUY"
                             THEN track_position_entry(st.tracking, ticker, now_)
                             ELSE st.tracking,
              next_order_id |-> st.next_order_id + 1,
              log |-> Append(st.log, line("submitted"))]

\* One pass of "for signal in signals" in execute_orders.  st carries the
\* loop's locals (cash, executed_orders), the broker account (held,
\* next_order_id), the tracking file and the log.  submit_ok = FALSE is
\* client.submit_order raising.
execute_one(st, signal, capital, max_alloc_per_trade, submit_ok, now_) ==
    LET ticker == signal.ticker
        action == signal.action
        alloc == Min(st.cash, max_alloc_of(capital, max_alloc_per_trade))
        line(kind) == [ticker |-> ticker, kind |-> kind, alloc |-> alloc,
                       cash_before |-> st.cash]
    IN  IF alloc <= 0
          THEN [st EXCEPT !.log = Append(@, line("skipped"))]
        ELSE IF ~submit_ok
          THEN [st EXCEPT !.log = Append(@, line("failed"))]
        ELSE [cash |-> st.cash - alloc,
              executed_orders |-> Append(st.executed_orders,
                  [ticker |-> ticker, action |-> action, notional |-> round2(alloc),
                   order_id |-> st.next_order_id, submitted_at |-> now_]),
              held |-> IF action = "BUY" THEN st.held \cup {ticker}
                       ELSE st.held \ {ticker},
              tracking |-> IF action = "BUY"
                             THEN track_position_entry(st.tracking, ticker, now_)
                             ELSE st.tracking,
              next_order_id |-> st.next_order_id + 1,
              log |-> Append(st.log, line("submitted"))]

\* The loop leaving at the first submission that raises ("break" in place
\* of "continue" in the except clause).
RECURSIVE execute_loop_abort(_, _, _, _, _, _, _)
execute_loop_abort(st, sigs, i, capital, max_alloc_per_trade, submit_ok, now_) ==
    IF i > Len(sigs) THEN st
    ELSE LET after == execute_one(st, sigs[i], capital, max_alloc_per_trade,
                                  submit_ok[i], now_)
         IN  IF after.log[Len(after.log)].kind = "failed" THEN after
             ELSE execute_loop_abort(after, sigs, i + 1, capital, max_alloc_per_trade,
                                     submit_ok, now_)

\* The loop of execute_orders, one pass per signal in input order.
RECURSIVE execute_loop(_, _, _, _, _, _, _)
execute_loop(st, sigs, i, capital, max_alloc_per_trade, submit_ok, now_) ==
    IF i > Len(sigs) THEN st
    ELSE execute_loop(
             execute_one(st, sigs[i], capital, max_alloc_per_trade, submit_ok[i], now_),
             sigs, i + 1, capital, max_alloc_per_trade, submit_ok, now_)

\* execute_orders followed by a second pass that places what is left of the
\* cash on the first signal.
execute_orders_with_second_pass(sigs, capital, max_alloc_per_trade, acct, conn_ok, account_ok, buying_power, submit_ok, now_) ==
    IF ~conn_ok \/ ~account_ok
      THEN [ret |-> error_result(capital), held |-> acct.held,
            tracking |-> acct.tracking, next_order_id |-> acct.next_order_id,
            log |-> [start |-> IF ~conn_ok THEN "no_connection" ELSE "no_account_info",
                     buying_power |-> None, lines |-> << >>]]
    ELSE LET st0 == [cash |-> Min(capital, buying_power), executed_orders |-> << >>,
                     held |-> acct.held, tracking |-> acct.tracking,
                     next_order_id |-> acct.next_order_id, log |-> << >>]
             st == execute_loop(st0, sigs, 1, capital, max_alloc_per_trade,
                                submit_ok, now_)
             extra == st.cash > 0 /\ sigs # << >>
             orders == IF extra
                         THEN Append(st.executed_orders,
                                  [ticker |-> sigs[1].ticker, action |-> sigs[1].action,
                                   notional |-> round2(st.cash),
                                   order_id |-> st.next_order_id, submitted_at |-> now_])
                         ELSE st.executed_orders
         IN  [ret |-> [orders |-> orders,
                       cash_left |-> IF extra THEN 0 ELSE round2(st.cash),
                       error |-> FALSE, executed_count |-> Some(Len(orders))],
              held |-> st.held, tracking |-> st.tracking,
              next_order_id |-> IF extra THEN st.next_order_id + 1 ELSE st.next_order_id,
              log |-> [start |-> "connected", buying_power |-> Some(buying_power),
                       lines |-> st.log]]

\* execute_orders(signals, capital, max_alloc_per_trade, paper).  acct is the
\* broker account and the tracking file before the call; conn_ok is
\* get_alpaca_client returning a client, account_ok is client.get_account()
\* succeeding, buying_power what it reports.  The result holds the returned
\* dict (ret), the account and tracking file afterwards, and the log: how the
\* call started (with the buying power reported) and one line per signal.
execute_orders(sigs, capital, max_alloc_per_trade, acct, conn_ok, account_ok, buying_power, submit_ok, now_) ==
    IF ~conn_ok \/ ~account_ok
      THEN [ret |-> error_result(capital), held |-> acct.held,
            tracking |-> acct.tracking, next_order_id |-> acct.next_order_id,
            log |-> [start |-> IF ~conn_ok THEN "no_connection" ELSE "no_account_info",
                     buying_power |-> None, lines |-> << >>]]
    ELSE LET st0 == [cash |-> Min(capital, buying_power), executed_orders |-> << >>,
                     held |-> acct.held, tracking |-> acct.tracking,
                     next_order_id |-> acct.next_order_id, log |-> << >>]
             st == execute_loop(st0, sigs, 1, capital, max_alloc_per_trade,
                                submit_ok, now_)
         IN  [ret |-> [orders |-> st.executed_orders, cash_left |-> round2(st.cash),
                       error |-> FALSE,
                       executed_count |-> Some(Len(st.executed_orders))],
              held |-> st.held, tracking |-> st.tracking,
              next_order_id |-> st.next_order_id,
              log |-> [start |-> "connected", buying_power |-> Some(buying_power),
                       lines |-> st.log]]

\* close_all_positions(paper): the held symbols afterwards.  The tracking
\* file is not touched.
close_all_positions(acct_held, conn_ok, close_ok) ==
    IF conn_ok /\ close_ok THEN {} ELSE acct_held

----------------------------------------------------------------------------
(* trade/position_manager.py: manage_positions *)

DefaultMinHoldHours == 24
DefaultMaxHoldDays == 7

\* PositionManager.__init__(config)
PositionManager(config) ==
    [trading_style |-> config.trading_style,
     min_hold_hours |-> config.min_hold_hours,
     max_hold_days |-> config.max_hold_days,
     stop_loss_pct |-> config.stop_loss_pct,
     take_profit_pct |-> config.take_profit_pct]

\* The positions manage_positions closes: those should_close_position says
\* to close and whose client.close_position(symbol) does not raise.
\* plpc[s] is the unrealized_plpc the broker reports for s.
positions_closed(self, acct, plpc, close_ok, now_) ==
    {s \in acct.held :
        /\ should_close_position(self, [symbol |-> s, unrealized_plpc |-> plpc[s]],
                                 get_position_entry_time(acct.tracking, s), now_)[1]
        /\ close_ok[s]}

RECURSIVE remove_all_tracking(_, _)
remove_all_tracking(positions_map, symbols) ==
    IF symbols = {} THEN positions_map
    ELSE LET s == CHOOSE x \in symbols : TRUE
         IN  remove_all_tracking(remove_position_tracking(positions_map, s),
                                 symbols \ {s})

\* PositionManager.manage_positions(paper): the account and the tracking file
\* afterwards.  conn_ok = FALSE is get_alpaca_client returning None or
\* get_all_positions raising.  Each position is decided and closed on its
\* own, so the loop's order does not matter.
manage_positions(self, acct, conn_ok, plpc, close_ok, now_) ==
    IF ~conn_ok THEN [held |-> acct.held, tracking |-> acct.tracking]
    ELSE LET closed == positions_closed(self, acct, plpc, close_ok, now_)
         IN  [held |-> acct.held \ closed,
              tracking |-> remove_all_tracking(acct.tracking, closed)]

\* manage_swing_positions(config, paper): only for trading_style 'swing'.
manage_swing_positions(config, acct, conn_ok, plpc, close_ok, now_) ==
    IF config.trading_style = "swing"
      THEN manage_positions(PositionManager(config), acct, conn_ok, plpc, close_ok, now_)
      ELSE [held |-> acct.held, tracking |-> acct.tracking]

----------------------------------------------------------------------------
(* main.py: run_once, the part after signal generation *)

\* The trade dict run_once stores for an executed order.
\* The dict with the order recorded as closed at a gain of a tenth of its
\* notional.
trade_of_order_settled(order) ==
    [ticker |-> order.ticker, action |-> order.action, notional |-> order.notional,
     order_id |-> order.order_id, status |-> "closed", pnl |-> order.notional \div 10]

\* The dict run_once and the dual cycles hand to store_trade for an order.
trade_of_order(order) ==
    [ticker |-> order.ticker, action |-> order.action, notional |-> order.notional,
     order_id |-> order.order_id, status |-> "open", pnl |-> 0]

\* "for order in res['orders']: memory.store_trade({...})".  read_ok[i] and
\* write_outcome[i] are what the i-th call's file accesses do.
RECURSIVE store_orders(_, _, _, _, _, _)
store_orders(file, orders, i, now_, read_ok, write_outcome) ==
    IF i > Len(orders) THEN file
    ELSE store_orders(
             store_trade(file, trade_of_order(orders[i]), now_, read_ok[i], write_outcome[i]),
             orders, i + 1, now_, read_ok, write_outcome)

\* The summary dict of run_once (the fields taken from res and signals).
summary_of(result, sigs) ==
    [n_signals |-> Len(sigs),
     cash_left |-> result.cash_left,
     executed_count |-> IF IsSome(result.executed_count)
                          THEN TheValue(result.executed_count) ELSE 0]

----------------------------------------------------------------------------
(* trade/strategy.py *)

\* Sentiment scores, thresholds, confidences and strengths are in hundredths
\* (0.4 = 40); an average is a fraction of hundredths with a positive
\* denominator.  Prices are positive integers and NaN stands for a missing
\* observation.
NaN == 0
FracLeq(a, b) == a.num * b.den <= b.num * a.den
FracMin(a, b) == IF FracLeq(a, b) THEN a ELSE b

RECURSIVE SumSeq(_)
SumSeq(s) == IF s = << >> THEN 0 ELSE Head(s) + SumSeq(Tail(s))

\* avg_sent: the mean compound score of news_scores + reddit_scores, 0.0 when
\* there is no item.
avg_sentiment(news_scores, reddit_scores) ==
    LET items == news_scores \o reddit_scores
    IN  IF Len(items) = 0 THEN Frac(0, 1) ELSE Frac(SumSeq(items), Len(items))

\* prices[t].dropna()
dropna(series) ==
    LET observed(x) == x # NaN
    IN  SelectSeq(series, observed)

\* series.iloc[-1] / series.iloc[-momentum_window] - 1.0
momentum(series, momentum_window) ==
    LET last == series[Len(series)]
        ref == series[Len(series) - momentum_window + 1]
    IN  Frac(last - ref, ref)

\* The body of the ticker loop with the sentiment condition left out.
simple_one_any_sentiment(prices, avg_sent, t, momentum_window, min_sentiment) ==
    IF ~IsSome(prices[t]) THEN << >>
    ELSE LET series == dropna(TheValue(prices[t]))
         IN  IF Len(series) < momentum_window + 1 THEN << >>
             ELSE LET mom == momentum(series, momentum_window)
                  IN  IF mom.num > 0
                        THEN << [ticker |-> t, action |-> "BUY",
                                 strength |-> FracMin(avg_sent, Frac(100, 1)),
                                 momentum |-> mom,
                                 weekend_boost |-> FALSE, weekend_only |-> FALSE] >>
                        ELSE << >>

\* The body of the ticker loop of simple_sentiment_momentum: the signals it
\* appends for ticker t (none or one).  An absent column is prices[t] = None.
simple_one(prices, avg_sent, t, momentum_window, min_sentiment) ==
    IF ~IsSome(prices[t]) THEN << >>
    ELSE LET series == dropna(TheValue(prices[t]))
         IN  IF Len(series) < momentum_window + 1 THEN << >>
             ELSE LET mom == momentum(series, momentum_window)
                  IN  IF FracLeq(Frac(min_sentiment, 1), avg_sent) /\ mom.num > 0
                        THEN << [ticker |-> t, action |-> "BUY",
                                 strength |-> FracMin(avg_sent, Frac(100, 1)),
                                 momentum |-> mom,
                                 weekend_boost |-> FALSE, weekend_only |-> FALSE] >>
                        ELSE << >>

RECURSIVE simple_loop(_, _, _, _, _, _)
simple_loop(prices, avg_sent, tickers, i, momentum_window, min_sentiment) ==
    IF i > Len(tickers) THEN << >>
    ELSE simple_one(prices, avg_sent, tickers[i], momentum_window, min_sentiment)
         \o simple_loop(prices, avg_sent, tickers, i + 1, momentum_window, min_sentiment)

\* simple_sentiment_momentum: (signals, avg_sent).
simple_sentiment_momentum(prices, news_scores, reddit_scores, tickers, momentum_window, min_sentiment) ==
    LET avg_sent == avg_sentiment(news_scores, reddit_scores)
    IN  [signals |-> simple_loop(prices, avg_sent, tickers, 1, momentum_window, min_sentiment),
         avg_sent |-> avg_sent]

\* insights_map[t]: the last insight of the list whose ticker is t, None
\* when there is none.
RECURSIVE insight_for(_, _, _)
insight_for(weekend_insights, t, i) ==
    IF i = 0 THEN None
    ELSE IF weekend_insights[i].ticker = t THEN Some(weekend_insights[i])
    ELSE insight_for(weekend_insights, t, i - 1)

\* The keys of insights_map in insertion order (first occurrence).
RECURSIVE insight_tickers(_, _, _)
insight_tickers(weekend_insights, i, seen) ==
    IF i > Len(weekend_insights) THEN << >>
    ELSE LET t == weekend_insights[i].ticker
         IN  IF t \in seen THEN insight_tickers(weekend_insights, i + 1, seen)
             ELSE << t >> \o insight_tickers(weekend_insights, i + 1, seen \cup {t})

\* historical_success for a ticker: rag_memory is None or the (wins, losses)
\* of the ticker's past trades.
historical_success(rag_memory, t) ==
    /\ IsSome(rag_memory)
    /\ TheValue(rag_memory)[t].wins > TheValue(rag_memory)[t].losses
    /\ TheValue(rag_memory)[t].wins > 0

\* boost_multiplier = 1 + confidence * 0.5, times 1.2 with historical success.
boost_multiplier(confidence, success) ==
    LET base == Frac(200 + confidence, 200)
    IN  IF success THEN FracTimes(base, 6, 5) ELSE base

BearishFilterConfidence == 70
WeekendAddConfidence == 65

\* The body of "for sig in base_signals": what is appended for sig.
enhance_one(sig, weekend_insights, rag_memory) ==
    LET found == insight_for(weekend_insights, sig.ticker, Len(weekend_insights))
    IN  IF ~IsSome(found) THEN << sig >>
        ELSE LET insight == TheValue(found)
                 m == boost_multiplier(insight.confidence,
                                       historical_success(rag_memory, sig.ticker))
             IN  IF insight.signal = "BULLISH" /\ sig.action = "BUY"
                   THEN << [sig EXCEPT
                              !.strength = FracMin(Frac(100, 1),
                                                   FracTimes(sig.strength, m.num, m.den)),
                              !.weekend_boost = TRUE] >>
                 ELSE IF /\ insight.signal = "BEARISH"
                         /\ sig.action = "BUY"
                         /\ insight.confidence > BearishFilterConfidence
                   THEN << >>
                 ELSE << sig >>

RECURSIVE enhance_loop(_, _, _, _)
enhance_loop(base_signals, i, weekend_insights, rag_memory) ==
    IF i > Len(base_signals) THEN << >>
    ELSE enhance_one(base_signals[i], weekend_insights, rag_memory)
         \o enhance_loop(base_signals, i + 1, weekend_insights, rag_memory)

\* The body of "for ticker, insight in insights_map.items()": the signal
\* added for a ticker that has no base signal.
weekend_one(prices, base_tickers, t, weekend_insights, momentum_window) ==
    LET insight == TheValue(insight_for(weekend_insights, t, Len(weekend_insights)))
    IN  IF t \in base_tickers THEN << >>
        ELSE IF ~(insight.signal = "BULLISH" /\ insight.confidence >= WeekendAddConfidence)
          THEN << >>
        ELSE IF ~IsSome(prices[t]) THEN << >>
        ELSE LET series == dropna(TheValue(prices[t]))
             IN  IF Len(series) < momentum_window + 1 THEN << >>
                 ELSE << [ticker |-> t, action |-> "BUY",
                          strength |-> Frac(insight.confidence, 1),
                          momentum |-> momentum(series, momentum_window),
                          weekend_boost |-> FALSE, weekend_only |-> TRUE] >>

RECURSIVE weekend_loop(_, _, _, _, _, _)
weekend_loop(prices, base_tickers, keys, i, weekend_insights, momentum_window) ==
    IF i > Len(keys) THEN << >>
    ELSE weekend_one(prices, base_tickers, keys[i], weekend_insights, momentum_window)
         \o weekend_loop(prices, base_tickers, keys, i + 1, weekend_insights, momentum_window)

\* enhanced_strategy_with_insights: (enhanced_signals, avg_sent).
enhanced_strategy_with_insights(prices, news_scores, reddit_scores, tickers, weekend_insights, momentum_window, min_sentiment, rag_memory) ==
    LET base == simple_sentiment_momentum(prices, news_scores, reddit_scores, tickers,
                                          momentum_window, min_sentiment)
        base_tickers == {base.signals[i].ticker : i \in 1..Len(base.signals)}
    IN  [signals |-> enhance_loop(base.signals, 1, weekend_insights, rag_memory)
                     \o weekend_loop(prices, base_tickers,
                                     insight_tickers(weekend_insights, 1, {}), 1,
                                     weekend_insights, momentum_window),
         avg_sent |-> base.avg_sent]

----------------------------------------------------------------------------
(* learning/trade_memory.py readers, learning/analyzer.py *)

\* TradeMemory.get_recent_trades(days): timestamps and now_ are hours.
get_recent_trades(file, days, now_, read_ok) ==
    LET cutoff == now_ - days * HoursPerDay
        recent(t) == t.timestamp >= cutoff
    IN  SelectSeq(load_json(file, << >>, read_ok), recent)

\* TradeMemory.get_learnings()
get_learnings(file, read_ok) == load_json(file, << >>, read_ok)

\* TradeMemory.store_learning(learning): the learnings file afterwards.
store_learning(file, learning, now_, read_ok, write_outcome) ==
    LET learnings == load_json(file, << >>, read_ok)
    IN  save_json(file,
                  Append(learnings, [category |-> learning.category,
                                     action |-> learning.action, timestamp |-> now_]),
                  write_outcome)

\* TradeMemory.update_performance_metrics(metrics): the performance file
\* afterwards, with the keys its readers use.
update_performance_metrics(file, metrics, now_, write_outcome) ==
    save_json(file,
              [total_trades |-> Some(metrics.total_trades),
               total_pnl |-> Some(metrics.total_pnl),
               win_rate |-> Some(metrics.win_rate)],
              write_outcome)

\* The dict returned when there is no recent trade: it has four keys.
ZeroedMetrics ==
    [timestamp |-> None, analysis_period_days |-> None, total_trades |-> 0,
     winning_trades |-> None, losing_trades |-> None, win_rate |-> Frac(0, 1),
     total_pnl |-> 0, avg_win |-> None, avg_loss |-> None,
     best_stock |-> None, worst_stock |-> None, insights |-> << >>]

\* df['pnl'] restricted by a condition, as a sequence (pnl in cents).
pnl_column(trades) == [i \in 1..Len(trades) |-> trades[i].pnl]
mean(column) == IF Len(column) > 0 THEN Frac(SumSeq(column), Len(column)) ELSE Frac(0, 1)

\* df.groupby('ticker')['pnl'].sum().sort_values(ascending=False): the
\* tickers that occur, best first; ties keep the alphabetical order of the
\* groups.  The ledgers hold trades of Tickers only.
stock_performance(trades) ==
    LET of(t) == LET mine(x) == x.ticker = t IN SelectSeq(trades, mine)
        total(t) == SumSeq(pnl_column(of(t)))
        present(t) == Len(of(t)) > 0
        a == "AAPL"
        b == "MSFT"
    IN  IF present(a) /\ present(b)
          THEN IF total(b) > total(a) THEN << b, a >> ELSE << a, b >>
        ELSE IF present(a) THEN << a >>
        ELSE IF present(b) THEN << b >>
        ELSE << >>

\* TradeMemory.get_best_performing_stocks(limit): the first `limit` tickers
\* of the ledger by total pnl.
get_best_performing_stocks(file, limit, read_ok) ==
    LET performance == stock_performance(load_json(file, << >>, read_ok))
    IN  SubSeq(performance, 1, Min(limit, Len(performance)))

\* StrategyOptimizer.filter_signals_by_learning(signals); self.current_params
\* is {} (None) until a live call of optimize_strategy has assigned it.
DefaultMinStrength == 40
BestStocksLimit == 5
filter_signals_by_learning(self_current_params, sigs, best_stocks) ==
    LET min_strength == IF IsSome(self_current_params)
                          THEN Frac(TheValue(self_current_params).min_sentiment, 1)
                          ELSE Frac(DefaultMinStrength, 1)
        passes(signal) ==
            /\ (best_stocks # << >> =>
                   \E i \in 1..Len(best_stocks) : best_stocks[i] = signal.ticker)
            /\ FracLeq(min_strength, signal.strength)
    IN  SelectSeq(sigs, passes)

\* The metrics dict of analyze_performance before the insights are added.
\* Every trade of the ledger has the keys ticker and pnl.
compute_metrics(trades, days, now_) ==
    LET won(t) == t.pnl > 0
        lost(t) == t.pnl < 0
        winning_trades == SelectSeq(trades, won)
        losing_trades == SelectSeq(trades, lost)
        ranking == stock_performance(trades)
    IN  [timestamp |-> Some(now_), analysis_period_days |-> Some(days),
         total_trades |-> Len(trades),
         winning_trades |-> Some(Len(winning_trades)),
         losing_trades |-> Some(Len(losing_trades)),
         win_rate |-> Frac(Len(winning_trades), Len(trades)),
         total_pnl |-> SumSeq(pnl_column(trades)),
         avg_win |-> Some(mean(pnl_column(winning_trades))),
         avg_loss |-> Some(mean(pnl_column(losing_trades))),
         best_stock |-> IF Len(ranking) > 0 THEN Some(ranking[1]) ELSE None,
         worst_stock |-> IF Len(ranking) > 0 THEN Some(ranking[Len(ranking)]) ELSE None,
         insights |-> << >>]

\* Thresholds of _generate_insights and get_strategy_recommendations.
LowWinRateMinTrades == 10
LowFrequencyTrades == 5
LowFrequencyDays == 7
MinLearnings == 5
RecentLearnings == 10
MinFrequency == 2
HighFrequency == 3

\* _generate_insights: what each of the four checks found, in order; a
\* finding is the insight lines it appends and the learning it stores.
findings_of(metrics) ==
    LET w == metrics.win_rate
        avg_win == TheValue(metrics.avg_win)
        avg_loss == TheValue(metrics.avg_loss)
        finding(lines, category, action) ==
            << [lines |-> lines, learning |-> [category |-> category, action |-> action]] >>
        win_rate_finding ==
            IF 10 * w.num > 6 * w.den
              THEN finding(<< "strong_win_rate" >>, "win_rate", "maintain_strategy")
            ELSE IF 10 * w.num < 4 * w.den /\ metrics.total_trades > LowWinRateMinTrades
              THEN finding(<< "low_win_rate" >>, "win_rate", "increase_sentiment_threshold")
            ELSE << >>
        \* ratio = abs(avg_win / avg_loss), compared by cross-multiplication
        ratio_num == avg_win.num * avg_loss.den
        ratio_den == -avg_loss.num * avg_win.den
        risk_reward_finding ==
            IF avg_win.num > 0 /\ avg_loss.num < 0
              THEN IF ratio_num > 2 * ratio_den
                     THEN finding(<< "excellent_risk_reward" >>, "risk_reward",
                                  "maintain_strategy")
                   ELSE IF ratio_num < ratio_den
                     THEN finding(<< "poor_risk_reward" >>, "risk_reward",
                                  "adjust_take_profit_stop_loss")
                   ELSE << >>
              ELSE << >>
        stock_finding ==
            IF IsSome(metrics.best_stock) /\ IsSome(metrics.worst_stock)
              THEN finding(<< "best_performer", "worst_performer" >>, "stock_performance",
                           "focus_on_best_performers")
              ELSE << >>
        frequency_finding ==
            IF /\ metrics.total_trades < LowFrequencyTrades
               /\ TheValue(metrics.analysis_period_days) >= LowFrequencyDays
              THEN finding(<< "low_frequency" >>, "frequency", "lower_sentiment_threshold")
              ELSE << >>
    IN  win_rate_finding \o risk_reward_finding \o stock_finding \o frequency_finding

RECURSIVE lines_of(_)
lines_of(findings) ==
    IF findings = << >> THEN << >> ELSE Head(findings).lines \o lines_of(Tail(findings))

RECURSIVE store_learnings(_, _, _)
store_learnings(file, findings, now_) ==
    IF findings = << >> THEN file
    ELSE store_learnings(store_learning(file, Head(findings).learning, now_, TRUE, "ok"),
                         Tail(findings), now_)

\* The end of analyze_performance: insights generated and stored as
\* learnings, metrics saved.  memory is the TradeMemory's files; the result
\* is the dict returned and the files afterwards.
finish_analysis(memory, metrics, now_) ==
    LET findings == findings_of(metrics)
        final == [metrics EXCEPT !.insights = lines_of(findings)]
    IN  [ret |-> final,
         memory |-> [memory EXCEPT
                       !.learnings_file = store_learnings(@, findings, now_),
                       !.performance_file = update_performance_metrics(@, final, now_, "ok")]]

\* analyze_performance with total_pnl carried over from the stored snapshot.
analyze_performance_cumulative(memory, days, now_) ==
    LET trades == get_recent_trades(memory.trades_file, days, now_, TRUE)
        stored == get_performance_metrics(memory.performance_file, TRUE)
        carried == IF IsSome(stored.total_pnl) THEN TheValue(stored.total_pnl) ELSE 0
        metrics == compute_metrics(trades, days, now_)
    IN  IF trades = << >> THEN [ret |-> ZeroedMetrics, memory |-> memory]
        ELSE finish_analysis(memory,
                             [metrics EXCEPT !.total_pnl = metrics.total_pnl + carried], now_)

\* analyze_performance with the win rate taken over the decided trades only.
analyze_performance_decided_only(memory, days, now_) ==
    LET trades == get_recent_trades(memory.trades_file, days, now_, TRUE)
        metrics == compute_metrics(trades, days, now_)
        decided == TheValue(metrics.winning_trades) + TheValue(metrics.losing_trades)
    IN  IF trades = << >> THEN [ret |-> ZeroedMetrics, memory |-> memory]
        ELSE finish_analysis(memory,
                 [metrics EXCEPT !.win_rate = Frac(TheValue(metrics.winning_trades),
                                                   Max(decided, 1))], now_)

\* PerformanceAnalyzer.analyze_performance(days)
analyze_performance(memory, days, now_) ==
    LET trades == get_recent_trades(memory.trades_file, days, now_, TRUE)
    IN  IF trades = << >> THEN [ret |-> ZeroedMetrics, memory |-> memory]
        ELSE finish_analysis(memory, compute_metrics(trades, days, now_), now_)

\* learnings[-10:]
recent_learnings(learnings) ==
    SubSeq(learnings, Max(1, Len(learnings) - RecentLearnings + 1), Len(learnings))

\* action_counts[action]
action_count(learnings, action) ==
    Cardinality({i \in 1..Len(learnings) : learnings[i].action = action})

\* The keys of action_counts in insertion order.
RECURSIVE counted_actions(_, _, _)
counted_actions(learnings, i, seen) ==
    IF i > Len(learnings) THEN << >>
    ELSE LET a == learnings[i].action
         IN  IF a \in seen THEN counted_actions(learnings, i + 1, seen)
             ELSE << a >> \o counted_actions(learnings, i + 1, seen \cup {a})

\* sorted(action_counts.items(), key=count, reverse=True) filtered by
\* count >= 2: the sort is stable, so equal counts keep insertion order.
RECURSIVE adjustments_from(_, _, _)
adjustments_from(learnings, keys, count) ==
    IF count < MinFrequency THEN << >>
    ELSE LET has_count(a) == action_count(learnings, a) = count
             adjustment(a) == [action |-> a, frequency |-> count,
                               confidence |-> IF count >= HighFrequency THEN "high"
                                              ELSE "medium"]
             chosen == SelectSeq(keys, has_count)
         IN  [i \in 1..Len(chosen) |-> adjustment(chosen[i])]
             \o adjustments_from(learnings, keys, count - 1)

\* get_strategy_recommendations with the tally taken over all learnings.
get_strategy_recommendations_all_learnings(file, read_ok) ==
    LET learnings == get_learnings(file, read_ok)
    IN  IF Len(learnings) < MinLearnings THEN [ready |-> FALSE, adjustments |-> << >>]
        ELSE [ready |-> TRUE,
              adjustments |-> adjustments_from(learnings,
                                  counted_actions(learnings, 1, {}), Len(learnings))]

\* PerformanceAnalyzer.get_strategy_recommendations()
get_strategy_recommendations(file, read_ok) ==
    LET learnings == get_learnings(file, read_ok)
        recent == recent_learnings(learnings)
    IN  IF Len(learnings) < MinLearnings THEN [ready |-> FALSE, adjustments |-> << >>]
        ELSE [ready |-> TRUE,
              adjustments |-> adjustments_from(recent, counted_actions(recent, 1, {}),
                                               Len(recent))]

----------------------------------------------------------------------------
(* schedule_runner.py, dual_trading.py *)

\* What can go wrong in the environment of one cycle.
FailureKinds ==
    {"none", "prices_empty", "news_empty", "news_unreachable", "broker_unreachable",
     "order_rejected", "close_fails", "ledger_corrupt"}

\* fetch_news_newsapi: [] without NEWSAPI_KEY; otherwise requests.get is
\* called outside any try, so an unreachable service raises.
fetch_news_newsapi(newsapi_key, failure) ==
    IF ~newsapi_key THEN "empty"
    ELSE IF failure = "news_unreachable" THEN "raised"
    ELSE IF failure = "news_empty" THEN "empty"
    ELSE "items"

\* fetch_news_rss: every feed is parsed inside try/except.
fetch_news_rss(failure) ==
    IF failure \in {"news_unreachable", "news_empty"} THEN "empty" ELSE "items"

\* fetch_market_data: fetch_prices returns an empty frame on any failure;
\* the RSS feeds are read when NewsAPI gave nothing.
fetch_market_data(newsapi_key, failure) ==
    LET newsapi == fetch_news_newsapi(newsapi_key, failure)
    IN  [raised |-> newsapi = "raised",
         prices |-> IF failure = "prices_empty" THEN "empty" ELSE "ok",
         news |-> IF newsapi = "items" THEN "items" ELSE fetch_news_rss(failure)]

\* run_paper_trading / run_live_trading on fetched data: the number of
\* orders executed.  Signals need prices and sentiment; without a broker
\* connection execute_orders returns an error result; a rejected order and a
\* failing close are caught where they happen; an unreadable ledger reads as
\* empty.
run_trading(data, failure) ==
    IF data.prices = "empty" \/ data.news = "empty" THEN 0
    ELSE IF failure \in {"broker_unreachable", "order_rejected"} THEN 0
    ELSE 1

\* run_dual_trading: no call in it is guarded, so what fetch_market_data
\* raises leaves the function.
run_dual_trading(newsapi_key, failure) ==
    LET data == fetch_market_data(newsapi_key, failure)
    IN  IF data.raised
          THEN [raised |-> TRUE, paper_executed |-> 0, live_executed |-> 0]
          ELSE [raised |-> FALSE, paper_executed |-> run_trading(data, failure),
                live_executed |-> run_trading(data, failure)]

\* schedule_runner.job: run_dual_trading() and the summary, unguarded.
job(newsapi_key, failure) == run_dual_trading(newsapi_key, failure)

\* schedule_runner.main after one job: schedule.run_pending() lets a job's
\* exception through, which ends the while loop and the process.
scheduler_after(outcome) == IF outcome.raised THEN "stopped" ELSE "running"

----------------------------------------------------------------------------
(* trade/live_broker.py: LiveBroker and its subclass AlpacaBroker *)

\* daily_loss_limit is per mille of the account value; money in hundredths
\* of a cent.  The object is the record of its fields; self.positions stays
\* {} (no method writes it), so only its length, 0, is kept.
RequiredKeys == {"ticker", "action", "strength"}
NoPositions == 0

\* AlpacaBroker.__init__(config) with STOP_TRADING.txt present or not;
\* connect_ok is the connection to Alpaca succeeding.
broker_init(config, kill_file, connect_ok) ==
    LET enabled == IF kill_file THEN FALSE ELSE config.enabled
    IN  [live_trading_enabled |-> enabled /\ connect_ok,
         daily_loss_limit |-> config.daily_loss_limit_pct,
         max_trades_per_day |-> config.max_trades_per_day,
         max_consecutive_losses |-> config.max_consecutive_losses,
         max_positions |-> config.max_positions,
         trades_today |-> 0,
         consecutive_losses |-> 0,
         daily_pnl |-> 0]

\* check_circuit_breakers without the limit on the trades of the day.
check_circuit_breakers_uncapped(self, kill_file, account_value) ==
    IF kill_file
      THEN [can_trade |-> FALSE, reason |-> "Kill switch activated"]
    ELSE IF 1000 * self.daily_pnl < -(self.daily_loss_limit * account_value)
      THEN [can_trade |-> FALSE, reason |-> "Daily loss limit exceeded"]
    ELSE IF self.consecutive_losses >= self.max_consecutive_losses
      THEN [can_trade |-> FALSE, reason |-> "Max consecutive losses reached"]
    ELSE [can_trade |-> TRUE, reason |-> "All checks passed"]

\* LiveBroker.check_circuit_breakers(): kill_file is _check_kill_switch(),
\* account_value is get_account_value().
check_circuit_breakers(self, kill_file, account_value) ==
    IF kill_file
      THEN [can_trade |-> FALSE, reason |-> "Kill switch activated"]
    ELSE IF 1000 * self.daily_pnl < -(self.daily_loss_limit * account_value)
      THEN [can_trade |-> FALSE, reason |-> "Daily loss limit exceeded"]
    ELSE IF self.trades_today >= self.max_trades_per_day
      THEN [can_trade |-> FALSE, reason |-> "Max trades per day reached"]
    ELSE IF self.consecutive_losses >= self.max_consecutive_losses
      THEN [can_trade |-> FALSE, reason |-> "Max consecutive losses reached"]
    ELSE [can_trade |-> TRUE, reason |-> "All checks passed"]

\* LiveBroker.pre_trade_validation(signal); env holds what the calls to the
\* outside answer: the kill-switch file, the account value, the market
\* hours and the buying power check.
pre_trade_validation(self, signal, env) ==
    LET breakers == check_circuit_breakers(self, env.kill_file, env.account_value)
    IN  IF ~breakers.can_trade
          THEN [is_valid |-> FALSE, reason |-> breakers.reason]
        ELSE IF ~(RequiredKeys \subseteq signal.keys)
          THEN [is_valid |-> FALSE, reason |-> "Invalid signal structure"]
        ELSE IF ~env.market_open
          THEN [is_valid |-> FALSE, reason |-> "Market is closed"]
        ELSE IF ~env.buying_power_ok
          THEN [is_valid |-> FALSE, reason |-> "Insufficient buying power"]
        ELSE IF NoPositions >= self.max_positions
          THEN [is_valid |-> FALSE, reason |-> "Max positions reached"]
        ELSE [is_valid |-> TRUE, reason |-> "Validation passed"]

\* LiveBroker.place_order(signal): the object afterwards, whether an order
\* was executed, and the reason logged.  env.execute_ok is _execute_order
\* returning an order (it returns None when the quantity is 0 or the API
\* call fails).
place_order(self, signal, env) ==
    IF ~self.live_trading_enabled
      THEN [self |-> self, executed |-> FALSE, reason |-> "Simulated order"]
    ELSE LET v == pre_trade_validation(self, signal, env)
         IN  IF ~v.is_valid
               THEN [self |-> self, executed |-> FALSE, reason |-> v.reason]
             ELSE IF env.execute_ok
               THEN [self |-> [self EXCEPT !.trades_today = @ + 1],
                     executed |-> TRUE, reason |-> "Order placed"]
             ELSE [self |-> self, executed |-> FALSE, reason |-> "Order placement failed"]

\* LiveBroker.update_daily_stats()
update_daily_stats(self) == [self EXCEPT !.trades_today = 0, !.daily_pnl = 0]

----------------------------------------------------------------------------
(* Bounds and input sets *)

MaxOrders == 3          \* no new cycle once this many orders were accepted
MaxDays == 1            \* the clock stops after this many days

Universe == << "AAPL", "MSFT" >>

\* cfg['risk'] as set by dual_trading.get_live_config
MaxAllocPct == 25
TakeProfitPct == 50
StopLossPct == 30

Config(capital) ==
    [capital_eur |-> capital, max_alloc_per_trade |-> MaxAllocPct,
     take_profit_pct |-> TakeProfitPct, stop_loss_pct |-> StopLossPct,
     trading_style |-> "swing", min_hold_hours |-> DefaultMinHoldHours,
     max_hold_days |-> DefaultMaxHoldDays, learning_enabled |-> TRUE]

Capitals == {Dollars(1000)}

\* The signal lists simple_sentiment_momentum can return: BUY signals for
\* some of the universe's tickers, in the universe's order.
SignalOf(t) == [ticker |-> t, action |-> "BUY"]
SignalLists ==
    {<< >>, << SignalOf(Universe[1]) >>, << SignalOf(Universe[2]) >>,
     << SignalOf(Universe[1]), SignalOf(Universe[2]) >>}

\* Buying power the broker may report.
BuyingPowers == {Dollars(250), Dollars(250) + Cents(50), Dollars(2000)}

\* unrealized_plpc values the broker may report for a position, per mille.
PlpcChoices == {-60, -50, -49, -30, -29, -11, -10, -9, -1, 0, 1, 49, 50, 99, 100, 120}
MarketPlpc == {-30, 0, 50}

HoldHourChoices == {-1, 0, 23, 24, 167, 168, 199, 200, 240}

NoRecommendations == [ready |-> FALSE, adjustments |-> << >>]
\* Lists of one action, and of two different actions that change something.
AdjustmentLists ==
    LET changing == Actions \ {"maintain_strategy"}
    IN  {<< >>} \cup {<< a >> : a \in Actions}
                \cup {<< p[1], p[2] >> : p \in {q \in changing \X changing : q[1] # q[2]}}
Recommendations ==
    {NoRecommendations} \cup {[ready |-> TRUE, adjustments |-> l] : l \in AdjustmentLists}

BaseSentiments == {0, 40, 68, 90}
BaseParams(m) ==
    [min_sentiment |-> m, take_profit_pct |-> Frac(TakeProfitPct, 1),
     stop_loss_pct |-> Frac(StopLossPct, 1), position_size_multiplier |-> None,
     focus_stocks |-> None]
WinRates == {None, Some(30), Some(70)}
BestStockLists == {<< >>, << "AAPL" >>}
MaxTPSteps == 2         \* optimize_strategy is not applied once TP/SL were scaled this often

RECURSIVE Pow10(_)
Pow10(n) == IF n = 0 THEN 1 ELSE 10 * Pow10(n - 1)

----------------------------------------------------------------------------
(* Initial values of each part when another part is being exercised *)

CloseQuiet ==
    /\ pm_self = PositionManager(Config(Dollars(1000)))
    /\ position = [symbol |-> "AAPL", unrealized_plpc |-> 0]
    /\ entry_time = None
    /\ decision = NoDecision

Cycles == {"paper", "live"}
Idle == [pc |-> "idle", trades |-> << >>, order_id |-> 0]
ConcQuiet ==
    /\ writer = [c \in Cycles |-> Idle]
    /\ returned = {}
    /\ overlapped = FALSE
    /\ io_failed = FALSE

MemQuiet ==
    /\ trades_file = MissingFile
    /\ learnings_file = MissingFile
    /\ performance_file = MissingFile
    /\ mem_log = NoMemLog
    /\ ConcQuiet

OptQuiet ==
    /\ paper_mode = TRUE
    /\ params = BaseParams(20)
    /\ current_params = None
    /\ applied = NoRecommendations
    /\ passed_config = None
    /\ pause = None
    /\ filter_in = None
    /\ filter_out = None

AnQuiet ==
    /\ an_metrics = None
    /\ an_recs = None

SigQuiet ==
    /\ sig_in = None
    /\ sig_out = None

SchedQuiet ==
    /\ scheduler = "running"
    /\ job_log = << >>

LiveQuiet ==
    /\ broker = None
    /\ live_hist = None

NoLog == [start |-> "not_called", buying_power |-> None, lines |-> << >>]

CycleQuiet ==
    /\ kill_switch = FALSE
    /\ held = {}
    /\ tracking = [s \in Tickers |-> None]
    /\ next_order_id = 1
    /\ pc = "idle"
    /\ signals = << >>
    /\ res = None
    /\ exec_log = NoLog
    /\ summary = None

----------------------------------------------------------------------------
(* The trading cycle: main.run_once against one broker account *)

Init ==
    /\ cfg \in {Config(c) : c \in Capitals}
    /\ clock = 0
    /\ CycleQuiet /\ MemQuiet /\ OptQuiet /\ CloseQuiet /\ AnQuiet /\ SigQuiet /\ SchedQuiet /\ LiveQuiet

Account == [held |-> held, tracking |-> tracking, next_order_id |-> next_order_id]

\* run_once up to and including signal generation.
StartCycle ==
    /\ pc = "idle"
    /\ next_order_id <= MaxOrders
    /\ \E sigs \in SignalLists : signals' = sigs
    /\ pc' = "manage"
    /\ UNCHANGED << cfg, kill_switch, held, tracking, next_order_id, res, exec_log, summary,
                    clock, memVars, optVars, closeVars, anVars, sigVars, schedVars, liveVars >>

\* main.py 177-180: manage_swing_positions(cfg, paper)
ManagePositions ==
    /\ pc = "manage"
    /\ \E conn_ok \in BOOLEAN, plpc \in [Tickers -> MarketPlpc], close_ok \in [Tickers -> BOOLEAN] :
          LET after == manage_swing_positions(cfg, Account, conn_ok, plpc, close_ok, clock)
          IN  /\ held' = after.held
              /\ tracking' = after.tracking
    /\ pc' = "execute"
    /\ UNCHANGED << cfg, kill_switch, next_order_id, signals, res, exec_log, summary,
                    clock, memVars, optVars, closeVars, anVars, sigVars, schedVars, liveVars >>

\* main.py 189-195: res = execute_orders(signals, capital, max_alloc, paper)
ExecuteOrders ==
    /\ pc = "execute"
    /\ \E conn_ok \in BOOLEAN, account_ok \in BOOLEAN, buying_power \in BuyingPowers,
          submit_ok \in [1..Len(signals) -> BOOLEAN] :
          LET r == execute_orders(signals, cfg.capital_eur, cfg.max_alloc_per_trade,
                                  Account, conn_ok, account_ok, buying_power,
                                  submit_ok, clock)
          IN  /\ res' = Some(r.ret)
              /\ exec_log' = r.log
              /\ held' = r.held
              /\ tracking' = r.tracking
              /\ next_order_id' = r.next_order_id
              /\ pc' = IF r.ret.error THEN "summary" ELSE "store"
    /\ UNCHANGED << cfg, kill_switch, signals, summary, clock, memVars, optVars, closeVars, anVars, sigVars, schedVars, liveVars >>

\* main.py 199-224: the executed orders go to the ledger (learning enabled).
\* In the cycle the ledger file is taken to be readable and writable; its
\* failures are exercised by SpecMem.
StoreTrades ==
    /\ pc = "store"
    /\ LET orders == TheValue(res).orders
       IN  IF orders # << >> /\ cfg.learning_enabled
             THEN trades_file' = store_orders(trades_file, orders, 1, clock,
                                              [i \in 1..Len(orders) |-> TRUE],
                                              [i \in 1..Len(orders) |-> "ok"])
             ELSE UNCHANGED trades_file
    /\ pc' = "summary"
    /\ UNCHANGED << cfg, kill_switch, held, tracking, next_order_id, signals, res, exec_log,
                    summary, clock, learnings_file, performance_file, mem_log, concVars,
                    optVars, closeVars, anVars, sigVars, schedVars, liveVars >>

\* main.py 236-254: the daily summary row.
WriteSummary ==
    /\ pc = "summary"
    /\ summary' = Some(summary_of(TheValue(res), signals))
    /\ pc' = "done"
    /\ UNCHANGED << cfg, kill_switch, held, tracking, next_order_id, signals, res, exec_log,
                    clock, memVars, optVars, closeVars, anVars, sigVars, schedVars, liveVars >>

\* run_once returns: its locals are gone.
Return ==
    /\ pc = "done"
    /\ pc' = "idle"
    /\ signals' = << >>
    /\ res' = None
    /\ exec_log' = NoLog
    /\ summary' = None
    /\ UNCHANGED << cfg, kill_switch, held, tracking, next_order_id,
                    clock, memVars, optVars, closeVars, anVars, sigVars, schedVars, liveVars >>

\* alpaca_broker.close_all_positions(paper), run between cycles.
CloseAllPositions ==
    /\ pc = "idle"
    /\ held # {}
    /\ \E conn_ok \in BOOLEAN, close_ok \in BOOLEAN :
          held' = close_all_positions(held, conn_ok, close_ok)
    /\ UNCHANGED << cfg, kill_switch, tracking, next_order_id, pc, signals, res, exec_log,
                    summary, clock, memVars, optVars, closeVars, anVars, sigVars, schedVars, liveVars >>

\* The operator creates or removes STOP_TRADING.txt.
ToggleKillSwitch ==
    /\ kill_switch' = ~kill_switch
    /\ UNCHANGED << cfg, held, tracking, next_order_id, pc, signals, res, exec_log,
                    summary, clock, memVars, optVars, closeVars, anVars, sigVars, schedVars, liveVars >>

\* A day passes between two cycles.
Tick ==
    /\ pc = "idle"
    /\ clock < MaxDays * HoursPerDay
    /\ clock' = clock + HoursPerDay
    /\ UNCHANGED << cycleVars, memVars, optVars, closeVars, anVars, sigVars, schedVars, liveVars >>

Next ==
    \/ StartCycle
    \/ ManagePositions
    \/ ExecuteOrders
    \/ StoreTrades
    \/ WriteSummary
    \/ Return
    \/ CloseAllPositions
    \/ ToggleKillSwitch
    \/ Tick

Spec == Init /\ [][Next]_vars

----------------------------------------------------------------------------
(* should_close_position on its own, over a grid of positions and configs *)

CloseConfigs ==
    [trading_style : {"swing", "day"}, min_hold_hours : {DefaultMinHoldHours, 200},
     max_hold_days : {DefaultMaxHoldDays}, stop_loss_pct : {StopLossPct, 50, 60},
     take_profit_pct : {TakeProfitPct, 100}]

InitClose ==
    /\ pm_self \in CloseConfigs
    /\ position \in [symbol : {"AAPL"}, unrealized_plpc : PlpcChoices]
    /\ clock = 240
    /\ entry_time \in {None} \cup {Some(240 - h) : h \in HoldHourChoices}
    /\ decision = NoDecision
    /\ cfg = Config(Dollars(1000))
    /\ CycleQuiet /\ MemQuiet /\ OptQuiet /\ AnQuiet /\ SigQuiet /\ SchedQuiet /\ LiveQuiet

\* One call of should_close_position(position, entry_time).
Decide ==
    /\ decision = NoDecision
    /\ decision' = should_close_position(pm_self, position, entry_time, clock)
    /\ UNCHANGED << pm_self, position, entry_time, clock, memVars, optVars, cycleVars,
                    anVars, sigVars, schedVars, liveVars >>

NextClose == Decide

SpecClose == InitClose /\ [][NextClose]_vars

----------------------------------------------------------------------------
(* TradeMemory.store_trade over a backing file that may fail *)

MaxStores == 3          \* store_trade is called at most this often

InitMem ==
    /\ MemQuiet
    /\ clock = 0
    /\ cfg = Config(Dollars(1000))
    /\ CycleQuiet /\ OptQuiet /\ CloseQuiet /\ AnQuiet /\ SigQuiet /\ SchedQuiet /\ LiveQuiet

\* One call of TradeMemory.store_trade(trade); next_order_id numbers the
\* calls, so that every trade handed in is a different one.
MemStoreTrade ==
    /\ next_order_id <= MaxStores
    /\ \E t \in Tickers, read_ok \in BOOLEAN, write_outcome \in WriteOutcomes :
          /\ trades_file' = store_trade(trades_file,
                                [ticker |-> t, action |-> "BUY", notional |-> Dollars(250),
                                 order_id |-> next_order_id, status |-> "open", pnl |-> 0],
                                clock, read_ok, write_outcome)
          /\ mem_log' = store_log(trades_file, read_ok, write_outcome)
    /\ next_order_id' = next_order_id + 1
    /\ UNCHANGED << cfg, kill_switch, held, tracking, pc, signals, res, exec_log, summary,
                    clock, learnings_file, performance_file, concVars, optVars, closeVars,
                    anVars, sigVars, schedVars, liveVars >>

\* Time passes between two calls.
MemTick ==
    /\ clock < MaxDays * HoursPerDay
    /\ clock' = clock + HoursPerDay
    /\ UNCHANGED << cycleVars, memVars, optVars, closeVars, anVars, sigVars, schedVars, liveVars >>

NextMem == MemStoreTrade \/ MemTick

SpecMem == InitMem /\ [][NextMem]_vars

----------------------------------------------------------------------------
(* Two cycles storing trades through one TradeMemory (dual_trading.py 36).
   store_trade reads the ledger, appends to its local list and writes the
   list back; a cycle can be between the read and the write while the other
   one runs.  Nothing in store_trade excludes that. *)

\* Cycle c enters store_trade: lines 31-35, up to trades.append(trade).
ConcLoad(c) ==
    /\ writer[c].pc = "idle"
    /\ next_order_id <= MaxStores
    /\ \E t \in Tickers, read_ok \in BOOLEAN :
          /\ writer' = [writer EXCEPT ![c] =
                          [pc |-> "loaded",
                           trades |-> store_trade_load(trades_file,
                                          [ticker |-> t, action |-> "BUY",
                                           notional |-> Dollars(250),
                                           order_id |-> next_order_id,
                                           status |-> "open", pnl |-> 0],
                                          clock, read_ok),
                           order_id |-> next_order_id]]
          /\ io_failed' = (io_failed \/ load_log(trades_file, read_ok).load_failed)
    /\ overlapped' = (overlapped \/ \E d \in Cycles \ {c} : writer[d].pc # "idle")
    /\ next_order_id' = next_order_id + 1
    /\ UNCHANGED << cfg, kill_switch, held, tracking, pc, signals, res, exec_log, summary,
                    clock, trades_file, learnings_file, performance_file, mem_log, returned,
                    optVars, closeVars, anVars, sigVars, schedVars, liveVars >>

\* Cycle c finishes store_trade: line 36, _save_json of its local list.
ConcSave(c) ==
    /\ writer[c].pc = "loaded"
    /\ \E write_outcome \in WriteOutcomes :
          /\ trades_file' = store_trade_save(trades_file, writer[c].trades, write_outcome)
          /\ io_failed' = (io_failed \/ write_outcome # "ok")
    /\ writer' = [writer EXCEPT ![c] = Idle]
    /\ returned' = returned \cup {writer[c].order_id}
    /\ UNCHANGED << cycleVars, clock, learnings_file, performance_file, mem_log, overlapped,
                    optVars, closeVars, anVars, sigVars, schedVars, liveVars >>

InitConc == InitMem

NextConc == \E c \in Cycles : ConcLoad(c) \/ ConcSave(c)

SpecConc == InitConc /\ [][NextConc]_vars

----------------------------------------------------------------------------
(* StrategyOptimizer.optimize_strategy applied to its own output *)

InitOpt ==
    /\ paper_mode \in BOOLEAN
    /\ params \in {BaseParams(m) : m \in BaseSentiments}
    /\ current_params = None
    /\ applied = NoRecommendations
    /\ passed_config = None
    /\ pause = None
    /\ filter_in = None
    /\ filter_out = None
    /\ clock = 0
    /\ cfg = Config(Dollars(1000))
    /\ CycleQuiet /\ MemQuiet /\ CloseQuiet /\ AnQuiet /\ SigQuiet /\ SchedQuiet /\ LiveQuiet

\* The effect of one call params = optimizer.optimize_strategy(params) on
\* the optimizer and the cycle's parameters.
OptimizeCall ==
    /\ \E recommendations \in Recommendations, win_rate \in WinRates,
          best_stocks \in BestStockLists :
          LET optimized == optimize_strategy(paper_mode, params, recommendations,
                                             win_rate, best_stocks)
          IN  /\ params' = optimized
              /\ current_params' = current_params_after(paper_mode, current_params,
                                                        optimized, recommendations)
              /\ applied' = recommendations
              /\ passed_config' = Some(base_config_after(params, optimized))
    /\ filter_in' = None
    /\ filter_out' = None
    /\ UNCHANGED << paper_mode, pause >>

\* One call params = optimizer.optimize_strategy(params).
Optimize ==
    /\ params.take_profit_pct.den < Pow10(MaxTPSteps)
    /\ OptimizeCall
    /\ UNCHANGED << clock, memVars, cycleVars, closeVars, anVars, sigVars, schedVars, liveVars >>

NextOpt == Optimize

SpecOpt == InitOpt /\ [][NextOpt]_vars

----------------------------------------------------------------------------
(* The signal strategies over price feeds, sentiment feeds and insights *)

\* A price column: absent, too short for any window, long enough for window
\* 2 only once the NaN is dropped, rising, falling.
PriceSeries ==
    {None, Some(<< 10, 11 >>), Some(<< 10, NaN, 11, 12 >>), Some(<< 10, 11, 12, 13 >>),
     Some(<< 13, 12, 11, 10 >>)}
PriceFeeds == [Tickers -> PriceSeries]
SentimentFeeds ==
    {[news |-> << >>, reddit |-> << >>], [news |-> << 30 >>, reddit |-> << >>],
     [news |-> << -30 >>, reddit |-> << >>], [news |-> << 50 >>, reddit |-> << -20 >>],
     [news |-> << 100 >>, reddit |-> << 100 >>]}
MinSentiments == {-50, 15, 40}
MomentumWindows == {2, 3}
Confidences == {50, 80, 120}
InsightLists ==
    {<< >>}
    \cup {<< [ticker |-> t, signal |-> g, confidence |-> c] >> :
             t \in Tickers, g \in {"BULLISH", "BEARISH"}, c \in Confidences}
    \cup {<< [ticker |-> "AAPL", signal |-> "BEARISH", confidence |-> 80],
             [ticker |-> "AAPL", signal |-> "BULLISH", confidence |-> 50] >>}
RagMemories == {None, Some([t \in Tickers |-> [wins |-> 2, losses |-> 1]])}

InitSig ==
    /\ sig_in \in {Some([prices |-> p, feed |-> f, tickers |-> Universe,
                         momentum_window |-> w, min_sentiment |-> m,
                         weekend_insights |-> l, rag_memory |-> r]) :
                       p \in PriceFeeds, f \in SentimentFeeds, w \in MomentumWindows,
                       m \in MinSentiments, l \in InsightLists, r \in RagMemories}
    /\ sig_out = None
    /\ clock = 0
    /\ cfg = Config(Dollars(1000))
    /\ CycleQuiet /\ MemQuiet /\ OptQuiet /\ CloseQuiet /\ AnQuiet /\ SchedQuiet /\ LiveQuiet

\* One call of simple_sentiment_momentum (main.py 127, dual_trading.py 128).
GenerateSimple ==
    /\ LET a == TheValue(sig_in)
           r == simple_sentiment_momentum(a.prices, a.feed.news, a.feed.reddit, a.tickers,
                                          a.momentum_window, a.min_sentiment)
       IN  sig_out' = Some([fn |-> "simple", signals |-> r.signals, avg_sent |-> r.avg_sent])
    /\ UNCHANGED << sig_in, clock, memVars, optVars, cycleVars, closeVars, anVars, schedVars, liveVars >>

\* One call of enhanced_strategy_with_insights.
GenerateEnhanced ==
    /\ LET a == TheValue(sig_in)
           r == enhanced_strategy_with_insights(a.prices, a.feed.news, a.feed.reddit,
                    a.tickers, a.weekend_insights, a.momentum_window, a.min_sentiment,
                    a.rag_memory)
       IN  sig_out' = Some([fn |-> "enhanced", signals |-> r.signals,
                            avg_sent |-> r.avg_sent])
    /\ UNCHANGED << sig_in, clock, memVars, optVars, cycleVars, closeVars, anVars, schedVars, liveVars >>

NextSig == GenerateSimple \/ GenerateEnhanced

SpecSig == InitSig /\ [][NextSig]_vars

----------------------------------------------------------------------------
(* execute_orders on batches of up to three signals *)

ExecTickers == {"AAPL", "MSFT", "NVDA"}
ExecSignalLists ==
    {<< >>}
    \cup {<< SignalOf(a) >> : a \in ExecTickers}
    \cup {<< SignalOf(p[1]), SignalOf(p[2]) >> :
             p \in {q \in ExecTickers \X ExecTickers : q[1] # q[2]}}
    \cup {<< SignalOf(p[1]), SignalOf(p[2]), SignalOf(p[3]) >> :
             p \in {q \in ExecTickers \X ExecTickers \X ExecTickers :
                      q[1] # q[2] /\ q[1] # q[3] /\ q[2] # q[3]}}

InitExec ==
    /\ cfg = Config(Dollars(1000))
    /\ clock = 0
    /\ kill_switch = FALSE
    /\ held = {}
    /\ tracking = [s \in ExecTickers |-> None]
    /\ next_order_id = 1
    /\ pc = "execute"
    /\ signals \in ExecSignalLists
    /\ res = None
    /\ exec_log = NoLog
    /\ summary = None
    /\ MemQuiet /\ OptQuiet /\ CloseQuiet /\ AnQuiet /\ SigQuiet /\ SchedQuiet /\ LiveQuiet

NextExec == ExecuteOrders

SpecExec == InitExec /\ [][NextExec]_vars

----------------------------------------------------------------------------
(* PerformanceAnalyzer over stored ledgers and learnings *)

MaxLearnings == 12      \* no analysis once this many learnings are stored

\* A stored trade; timestamps are hours relative to the initial clock.
TradeRec(ticker, pnl, at) ==
    stamp_trade([ticker |-> ticker, action |-> "BUY", notional |-> Dollars(250),
                 order_id |-> 0, status |-> "closed", pnl |-> pnl], at)
LastDay == -10
LastWeek == -100
LongAgo == -200
ElevenLosses == [i \in 1..11 |-> TradeRec("MSFT", -100, LastDay)]
Ledgers ==
    {MissingFile, CorruptFile,
     FileOf(<< TradeRec("AAPL", 500, LastDay), TradeRec("AAPL", 300, LastDay) >>),
     FileOf(<< TradeRec("AAPL", 500, LastDay), TradeRec("MSFT", -200, LastDay),
               TradeRec("MSFT", 0, LastWeek) >>),
     FileOf(<< TradeRec("AAPL", 100, LastDay), TradeRec("MSFT", -300, LastDay) >>),
     FileOf(ElevenLosses \o << TradeRec("AAPL", 100, LastDay) >>),
     FileOf(<< TradeRec("AAPL", 500, LongAgo) >>),
     FileOf(<< TradeRec("AAPL", 500, LastDay), TradeRec("AAPL", 200, LastDay),
               TradeRec("MSFT", 100, LastWeek), TradeRec("AAPL", -100, LastWeek),
               TradeRec("MSFT", 50, LastDay) >>),
     FileOf(<< TradeRec("AAPL", 0, LastDay) >>)}

LearningOf(category, action) == [category |-> category, action |-> action, timestamp |-> LongAgo]
LearningSeeds ==
    {MissingFile,
     FileOf(<< LearningOf("win_rate", "maintain_strategy"),
               LearningOf("stock_performance", "focus_on_best_performers"),
               LearningOf("win_rate", "maintain_strategy"),
               LearningOf("stock_performance", "focus_on_best_performers") >>),
     FileOf(<< LearningOf("risk_reward", "adjust_take_profit_stop_loss"),
               LearningOf("risk_reward", "adjust_take_profit_stop_loss"),
               LearningOf("win_rate", "increase_sentiment_threshold"),
               LearningOf("win_rate", "maintain_strategy"),
               LearningOf("win_rate", "maintain_strategy"),
               LearningOf("win_rate", "maintain_strategy"),
               LearningOf("stock_performance", "focus_on_best_performers"),
               LearningOf("stock_performance", "focus_on_best_performers"),
               LearningOf("frequency", "lower_sentiment_threshold") >>)}
AnalysisDays == {1, 7}

InitAn ==
    /\ trades_file \in Ledgers
    /\ learnings_file \in LearningSeeds
    /\ performance_file = MissingFile
    /\ mem_log = NoMemLog
    /\ ConcQuiet
    /\ AnQuiet
    /\ clock = 0
    /\ cfg = Config(Dollars(1000))
    /\ CycleQuiet /\ OptQuiet /\ CloseQuiet /\ SigQuiet /\ SchedQuiet /\ LiveQuiet

\* One call analyzer.analyze_performance(days) (main.py 51,
\* dual_trading.py 123 and 191, schedule_runner.py 22).
AnalyzeCall(days) ==
    LET r == analyze_performance([trades_file |-> trades_file,
                                  learnings_file |-> learnings_file,
                                  performance_file |-> performance_file],
                                 days, clock)
    IN  /\ an_metrics' = Some([days |-> days, at |-> clock, ret |-> r.ret])
        /\ trades_file' = r.memory.trades_file
        /\ learnings_file' = r.memory.learnings_file
        /\ performance_file' = r.memory.performance_file

Analyze ==
    /\ Len(get_learnings(learnings_file, TRUE)) < MaxLearnings
    /\ \E days \in AnalysisDays : AnalyzeCall(days)
    /\ UNCHANGED << an_recs, mem_log, concVars, clock, optVars, cycleVars, closeVars, sigVars,
                    schedVars, liveVars >>

\* One call analyzer.get_strategy_recommendations().
GetRecommendations ==
    /\ an_recs' = Some(get_strategy_recommendations(learnings_file, TRUE))
    /\ UNCHANGED << an_metrics, memVars, clock, optVars, cycleVars, closeVars, sigVars,
                    schedVars, liveVars >>

\* A day passes.
AnTick ==
    /\ clock < MaxDays * HoursPerDay
    /\ clock' = clock + HoursPerDay
    /\ UNCHANGED << anVars, memVars, optVars, cycleVars, closeVars, sigVars, schedVars, liveVars >>

NextAn == Analyze \/ GetRecommendations \/ AnTick

SpecAn == InitAn /\ [][NextAn]_vars

----------------------------------------------------------------------------
(* The cycle's optimizer followed by its signal filter: run_once calls
   optimize_strategy (main.py 119) and later hands the cycle's signals to
   filter_signals_by_learning (main.py 166). *)

FilterSignal(t, strength) ==
    [ticker |-> t, action |-> "BUY", strength |-> Frac(strength, 1),
     momentum |-> Frac(1, 10), weekend_boost |-> FALSE, weekend_only |-> FALSE]
FilterSignalLists ==
    {<< >>,
     << FilterSignal("AAPL", 30) >>,
     << FilterSignal("MSFT", 45), FilterSignal("AAPL", 40) >>,
     << FilterSignal("MSFT", 80), FilterSignal("AAPL", 15), FilterSignal("AAPL", 60) >>}
FilterLedgers ==
    {MissingFile,
     FileOf(<< TradeRec("AAPL", 500, LastDay) >>),
     FileOf(<< TradeRec("AAPL", 100, LastDay), TradeRec("MSFT", -300, LastDay) >>)}

InitFilter ==
    /\ paper_mode \in BOOLEAN
    /\ params \in {BaseParams(m) : m \in {40, 68}}
    /\ current_params = None
    /\ applied = NoRecommendations
    /\ passed_config = None
    /\ pause = None
    /\ filter_in = None
    /\ filter_out = None
    /\ trades_file \in FilterLedgers
    /\ learnings_file = MissingFile
    /\ performance_file = MissingFile
    /\ mem_log = NoMemLog
    /\ ConcQuiet
    /\ clock = 0
    /\ cfg = Config(Dollars(1000))
    /\ CycleQuiet /\ CloseQuiet /\ AnQuiet /\ SigQuiet /\ SchedQuiet /\ LiveQuiet

\* One call optimizer.filter_signals_by_learning(signals), once per cycle.
FilterSignals ==
    /\ filter_in = None
    /\ \E sigs \in FilterSignalLists :
          /\ filter_in' = Some(sigs)
          /\ filter_out' = Some(filter_signals_by_learning(current_params, sigs,
                                    get_best_performing_stocks(trades_file, BestStocksLimit,
                                                               TRUE)))
    /\ UNCHANGED << paper_mode, params, current_params, applied, passed_config, pause, clock,
                    memVars, cycleVars, closeVars, anVars, sigVars, schedVars, liveVars >>

\* The optimize_strategy call of the next day's cycle.
OptimizeOfCycle ==
    /\ clock < MaxDays * HoursPerDay
    /\ clock' = clock + HoursPerDay
    /\ OptimizeCall
    /\ UNCHANGED << memVars, cycleVars, closeVars, anVars, sigVars, schedVars, liveVars >>

NextFilter == OptimizeOfCycle \/ FilterSignals

SpecFilter == InitFilter /\ [][NextFilter]_vars

----------------------------------------------------------------------------
(* The scheduler running one job after another *)

MaxJobs == 2            \* the scheduler is followed for this many jobs

InitSched ==
    /\ SchedQuiet /\ LiveQuiet
    /\ clock = 0
    /\ cfg = Config(Dollars(1000))
    /\ CycleQuiet /\ MemQuiet /\ OptQuiet /\ CloseQuiet /\ AnQuiet /\ SigQuiet

\* The startup job and each job started by schedule.run_pending().
RunJob ==
    /\ scheduler = "running"
    /\ Len(job_log) < MaxJobs
    /\ \E newsapi_key \in BOOLEAN, failure \in FailureKinds :
          LET outcome == job(newsapi_key, failure)
          IN  /\ job_log' = Append(job_log, [newsapi_key |-> newsapi_key,
                                              failure |-> failure, outcome |-> outcome])
              /\ scheduler' = scheduler_after(outcome)
    /\ UNCHANGED << clock, memVars, optVars, cycleVars, closeVars, anVars, sigVars, liveVars >>

NextSched == RunJob

SpecSched == InitSched /\ [][NextSched]_vars

----------------------------------------------------------------------------
(* StrategyOptimizer.should_pause_trading over performance snapshots *)

\* Snapshots around the two thresholds, with and without each key.
SnapshotTrades == {None, Some(0), Some(9), Some(10), Some(11)}
SnapshotPnl == {None, Some(-10001), Some(-10000), Some(-9999), Some(0), Some(15000)}
PerformanceFiles ==
    {MissingFile, CorruptFile}
    \cup {FileOf([total_trades |-> n, total_pnl |-> p, win_rate |-> None]) :
             n \in SnapshotTrades, p \in SnapshotPnl}

InitPause ==
    /\ paper_mode \in BOOLEAN
    /\ performance_file \in PerformanceFiles
    /\ trades_file = MissingFile
    /\ learnings_file = MissingFile
    /\ mem_log = NoMemLog
    /\ ConcQuiet
    /\ params = BaseParams(20)
    /\ current_params = None
    /\ applied = NoRecommendations
    /\ passed_config = None
    /\ pause = None
    /\ filter_in = None
    /\ filter_out = None
    /\ clock = 0
    /\ cfg = Config(Dollars(1000))
    /\ CycleQuiet /\ CloseQuiet /\ AnQuiet /\ SigQuiet /\ SchedQuiet /\ LiveQuiet

\* The effect of one call optimizer.should_pause_trading().  Paper mode
\* returns before the snapshot is read.
PauseCall ==
    \E read_ok \in BOOLEAN :
        /\ pause' = Some(should_pause_trading(paper_mode,
                              get_performance_metrics(performance_file, read_ok)))
        /\ mem_log' = IF paper_mode THEN NoMemLog ELSE load_log(performance_file, read_ok)

\* One call optimizer.should_pause_trading() (main.py 58).
Pause ==
    /\ PauseCall
    /\ UNCHANGED << paper_mode, params, current_params, applied, passed_config, filterVars,
                    clock, trades_file, learnings_file, performance_file, concVars,
                    cycleVars, closeVars, anVars, sigVars, schedVars, liveVars >>

NextPause == Pause

SpecPause == InitPause /\ [][NextPause]_vars

----------------------------------------------------------------------------
(* Trading cycles feeding the learning system: a cycle analyses the ledger
   (main.py 51, dual_trading.py 123), asks whether to pause (main.py 58) and
   stores the trades of its executed orders (main.py 211-224, dual_trading.py
   158-169 and 253-264). *)

\* Ten trades stored by earlier cycles.
TenOpenTrades ==
    [i \in 1..10 |->
        stamp_trade(trade_of_order([ticker |-> IF i % 3 = 0 THEN "MSFT" ELSE "AAPL",
                                    action |-> "BUY", notional |-> Dollars(250),
                                    order_id |-> 0]), LastDay)]

InitLearn ==
    /\ trades_file \in {MissingFile, FileOf(TenOpenTrades)}
    /\ learnings_file = MissingFile
    /\ performance_file = MissingFile
    /\ mem_log = NoMemLog
    /\ ConcQuiet
    /\ paper_mode \in BOOLEAN
    /\ params = BaseParams(20)
    /\ current_params = None
    /\ applied = NoRecommendations
    /\ passed_config = None
    /\ pause = None
    /\ filter_in = None
    /\ filter_out = None
    /\ clock = 0
    /\ cfg = Config(Dollars(1000))
    /\ CycleQuiet /\ CloseQuiet /\ AnQuiet /\ SigQuiet /\ SchedQuiet /\ LiveQuiet

\* main.py 51: metrics = analyzer.analyze_performance(days=7).
WeekOfAnalysis == 7
LearnAnalyze ==
    /\ pc = "idle"
    /\ AnalyzeCall(WeekOfAnalysis)
    /\ pc' = "analyzed"
    /\ UNCHANGED << cfg, kill_switch, held, tracking, next_order_id, signals, res, exec_log,
                    summary, an_recs, mem_log, concVars, clock, optVars, closeVars, sigVars,
                    schedVars, liveVars >>

\* main.py 58-60: a cycle that is told to pause returns at once.
LearnPause ==
    /\ pc = "analyzed"
    /\ PauseCall
    /\ pc' = IF TheValue(pause') THEN "done" ELSE "store"
    /\ UNCHANGED << cfg, kill_switch, held, tracking, next_order_id, signals, res, exec_log,
                    summary, paper_mode, params, current_params, applied, passed_config,
                    filterVars, clock, trades_file, learnings_file, performance_file,
                    concVars, closeVars, anVars, sigVars, schedVars, liveVars >>

\* The store loop of a cycle whose execute_orders call returned one order
\* per signal.
LearnStore ==
    /\ pc = "store"
    /\ \E sigs \in SignalLists :
          LET orders == [i \in 1..Len(sigs) |->
                            [ticker |-> sigs[i].ticker, action |-> sigs[i].action,
                             notional |-> Dollars(250),
                             order_id |-> next_order_id + i - 1]]
          IN  /\ trades_file' = IF orders = << >> THEN trades_file
                                ELSE store_orders(trades_file, orders, 1, clock,
                                                  [i \in 1..Len(orders) |-> TRUE],
                                                  [i \in 1..Len(orders) |-> "ok"])
              /\ next_order_id' = next_order_id + Len(orders)
    /\ pc' = "done"
    /\ UNCHANGED << cfg, kill_switch, held, tracking, signals, res, exec_log, summary,
                    clock, learnings_file, performance_file, mem_log, concVars,
                    optVars, closeVars, anVars, sigVars, schedVars, liveVars >>

\* The next day's cycle begins.
LearnTick ==
    /\ pc = "done"
    /\ clock < MaxDays * HoursPerDay
    /\ clock' = clock + HoursPerDay
    /\ pc' = "idle"
    /\ UNCHANGED << cfg, kill_switch, held, tracking, next_order_id, signals, res, exec_log,
                    summary, memVars, optVars, closeVars, anVars, sigVars, schedVars, liveVars >>

NextLearn == LearnAnalyze \/ LearnPause \/ LearnStore \/ LearnTick

SpecLearn == InitLearn /\ [][NextLearn]_vars

----------------------------------------------------------------------------
(* An AlpacaBroker over a day of place_order calls *)

DailyLossLimitPct == 30
LiveConfigs ==
    [enabled : BOOLEAN, daily_loss_limit_pct : {DailyLossLimitPct},
     max_trades_per_day : {0, 2}, max_consecutive_losses : {0, 3}, max_positions : {0, 5}]
LiveSignals ==
    {[keys |-> RequiredKeys, ticker |-> "AAPL", action |-> "BUY"],
     [keys |-> {"ticker", "action"}, ticker |-> "MSFT", action |-> "BUY"]}
\* The equity the account reports; it is below zero for an account in debt.
AccountValues == {Dollars(1000), -Dollars(100)}
LiveEnvs ==
    [account_value : AccountValues, market_open : BOOLEAN, buying_power_ok : BOOLEAN,
     execute_ok : BOOLEAN]

\* broker = create_broker(config)
InitLive ==
    /\ kill_switch \in BOOLEAN
    /\ \E config \in LiveConfigs, connect_ok \in BOOLEAN :
          broker = Some(broker_init(config, kill_switch, connect_ok))
    /\ live_hist = Some([killed_at_construction |-> kill_switch, last |-> None])
    /\ held = {}
    /\ tracking = [s \in Tickers |-> None]
    /\ next_order_id = 1
    /\ pc = "idle"
    /\ signals = << >>
    /\ res = None
    /\ exec_log = NoLog
    /\ summary = None
    /\ clock = 0
    /\ cfg = Config(Dollars(1000))
    /\ MemQuiet /\ OptQuiet /\ CloseQuiet /\ AnQuiet /\ SigQuiet /\ SchedQuiet

\* One call broker.place_order(signal).
PlaceOrder ==
    /\ \E signal \in LiveSignals, e \in LiveEnvs :
          LET env == [kill_file |-> kill_switch, account_value |-> e.account_value,
                      market_open |-> e.market_open, buying_power_ok |-> e.buying_power_ok,
                      execute_ok |-> e.execute_ok]
              r == place_order(TheValue(broker), signal, env)
          IN  /\ broker' = Some(r.self)
              /\ live_hist' = Some([TheValue(live_hist) EXCEPT !.last =
                                      Some([executed |-> r.executed, reason |-> r.reason,
                                            account_value |-> e.account_value])])
    /\ UNCHANGED << cycleVars, clock, memVars, optVars, closeVars, anVars, sigVars, schedVars >>

\* One call broker.update_daily_stats().
UpdateDailyStats ==
    /\ broker' = Some(update_daily_stats(TheValue(broker)))
    /\ UNCHANGED << live_hist, cycleVars, clock, memVars, optVars, closeVars, anVars, sigVars,
                    schedVars >>

NextLive == PlaceOrder \/ UpdateDailyStats \/ ToggleKillSwitch

SpecLive == InitLive /\ [][NextLive]_vars

----------------------------------------------------------------------------
(* Properties of should_close_position (checked under SpecClose) *)

\* C1: price-based rules win over time-based rules.  Whatever the trading
\* style and the entry time (unknown, younger than min_hold_hours, older than
\* max_hold_days), unrealized_pl_pct >= take_profit_pct is answered with
\* (close, take_profit), and otherwise unrealized_pl_pct <= -stop_loss_pct
\* with (close, stop_loss).
C1_PriceRulesWin ==
    decision # NoDecision =>
        LET pnl_pct == position.unrealized_plpc
        IN  /\ pnl_pct >= pm_self.take_profit_pct
                  => decision = << TRUE, "take_profit" >>
            /\ (pnl_pct < pm_self.take_profit_pct /\ pnl_pct <= -pm_self.stop_loss_pct)
                  => decision = << TRUE, "stop_loss" >>

\* A swing position bought less than min_hold_hours ago and closed for
\* take-profit.
C1_Witness ==
    /\ pm_self.trading_style = "swing"
    /\ IsSome(entry_time)
    /\ clock - TheValue(entry_time) < pm_self.min_hold_hours
    /\ decision = << TRUE, "take_profit" >>

\* C9: when neither take-profit nor stop-loss fires, the answer follows the
\* time table: swing with a known entry time gives (hold, min_hold_not_met)
\* below min_hold_hours; from max_hold_days on (close, max_hold_time_profit)
\* for pnl > 0, (close, max_hold_time_small_loss) for -1% < pnl <= 0 and
\* (hold, hold_for_stop_loss) for pnl <= -1%; everything else is (hold, hold).
\* A position at -5% is closed only by the stop-loss rule, and only when
\* stop_loss_pct <= 5%.
C9_TimeTable ==
    LET pnl_pct == position.unrealized_plpc
        timed == pm_self.trading_style = "swing" /\ IsSome(entry_time)
        held_hours == clock - TheValue(entry_time)
    IN  /\ (/\ decision # NoDecision
            /\ pnl_pct < pm_self.take_profit_pct
            /\ pnl_pct > -pm_self.stop_loss_pct) =>
               decision =
                 IF ~timed THEN << FALSE, "hold" >>
                 ELSE IF held_hours < pm_self.min_hold_hours
                   THEN << FALSE, "min_hold_not_met" >>
                 ELSE IF held_hours >= 24 * pm_self.max_hold_days
                   THEN IF pnl_pct > 0 THEN << TRUE, "max_hold_time_profit" >>
                        ELSE IF pnl_pct > -10 THEN << TRUE, "max_hold_time_small_loss" >>
                        ELSE << FALSE, "hold_for_stop_loss" >>
                 ELSE << FALSE, "hold" >>
        /\ (decision # NoDecision /\ pnl_pct = -50) =>
               IF pm_self.stop_loss_pct <= 50
                 THEN decision = << TRUE, "stop_loss" >>
                 ELSE decision[1] = FALSE

\* A position held for max_hold_days at -5% with a 6% stop-loss: kept, with
\* reason hold_for_stop_loss.
C9_Witness ==
    /\ decision = << FALSE, "hold_for_stop_loss" >>
    /\ position.unrealized_plpc = -50
    /\ IsSome(entry_time)
    /\ clock - TheValue(entry_time) >= 24 * pm_self.max_hold_days

----------------------------------------------------------------------------
(* Properties of the tracking file and the ledger *)

\* C2: the entry-time tracking map holds a record for a symbol exactly when
\* the symbol is held at the broker.
C2_TrackingMatchesHeld ==
    \A s \in Tickers : IsSome(tracking[s]) <=> s \in held

\* C3: the ledger is append-only.  Every store_trade call, also one made
\* while the file cannot be read or parsed, leaves the earlier trades in
\* place and in order and adds exactly one entry at the end.
C3_AppendOnly ==
    [][next_order_id' = next_order_id + 1 =>
         LET before == Ledger(trades_file)
             after == Ledger(trades_file')
         IN  /\ Len(after) = Len(before) + 1
             /\ SubSeq(after, 1, Len(before)) = before
             /\ after[Len(after)].order_id = next_order_id]_vars

\* C4: with the kill-switch file present, execute_orders submits no order.
C4_KillSwitchBlocksOrders ==
    [][(pc = "execute" /\ pc' # "execute" /\ kill_switch) =>
         /\ \A i \in DOMAIN exec_log'.lines : exec_log'.lines[i].kind = "skipped"
         /\ TheValue(res').orders = << >>
         /\ next_order_id' = next_order_id]_vars

\* C8: a trade enters the ledger with status open and pnl 0 when its order is
\* accepted; when manage_positions closes the position, the trade's status
\* becomes closed; a closed trade never becomes open again.
C8_TradeLifecycle ==
    [][LET before == Ledger(trades_file)
           after == Ledger(trades_file')
       IN  /\ (pc = "store" /\ pc' # "store") =>
                 /\ Len(after) = Len(before) + Len(TheValue(res).orders)
                 /\ \A i \in Len(before) + 1 .. Len(after) :
                        after[i].status = "open" /\ after[i].pnl = 0
           /\ (pc = "manage" /\ pc' # "manage") =>
                 \A s \in held \ held' : \A i \in DOMAIN after :
                     after[i].ticker = s => after[i].status = "closed"
           /\ \A i \in DOMAIN before :
                 before[i].status = "closed" =>
                     i \in DOMAIN after /\ after[i].status = "closed"]_vars

----------------------------------------------------------------------------
(* Properties of execute_orders (checked under Spec) *)

\* A minimum order size is named by the written contract only; the code has
\* none.  One dollar, the smallest notional the broker takes.
MinOrderSize == Dollars(1)

\* The allocation steps of execute_orders as its log shows them: cash starts
\* at min(capital, reported buying power); signals are taken in input order;
\* each is allocated min(remaining cash, capital * max_alloc_per_trade); an
\* accepted order lowers the remaining cash by exactly its allocation and
\* nothing else changes it; cash_left is what remains, to the cent.
C5_AllocationSteps ==
    exec_log.start = "connected" =>
        LET L == exec_log.lines
            capital == cfg.capital_eur
            cash_after(i) == IF L[i].kind = "submitted"
                               THEN L[i].cash_before - L[i].alloc
                               ELSE L[i].cash_before
            cash0 == Min(capital, TheValue(exec_log.buying_power))
        IN  /\ Len(L) = Len(signals)
            /\ \A i \in DOMAIN L :
                  /\ L[i].ticker = signals[i].ticker
                  /\ L[i].cash_before = IF i = 1 THEN cash0 ELSE cash_after(i - 1)
                  /\ L[i].alloc = Min(L[i].cash_before,
                                      (capital * cfg.max_alloc_per_trade) \div 100)
            /\ TheValue(res).cash_left =
                  round2(IF L = << >> THEN cash0 ELSE cash_after(Len(L)))

C6_FailureDoesNotAbort ==
    [][(pc = "execute" /\ pc' # "execute" /\ exec_log'.start = "connected") =>
         LET L == exec_log'.lines
             ret == TheValue(res')
             failed == {i \in DOMAIN L : L[i].kind = "failed"}
             accepted == {i \in DOMAIN L : L[i].kind = "submitted"}
         IN  /\ Len(L) = Len(signals)
             /\ \A i \in DOMAIN L : L[i].kind = "skipped" => L[i].alloc <= 0
             /\ \A i \in failed :
                   /\ L[i].ticker = signals[i].ticker
                   /\ IF i < Len(L) THEN L[i + 1].cash_before = L[i].cash_before
                      ELSE ret.cash_left = round2(L[i].cash_before)
                   /\ (\A j \in accepted : L[j].ticker # L[i].ticker)
                          => tracking'[L[i].ticker] = tracking[L[i].ticker]
             /\ Len(ret.orders) = Cardinality(accepted)
             /\ \A k \in DOMAIN ret.orders :
                   \E j \in accepted : ret.orders[k].ticker = L[j].ticker
             /\ next_order_id' = next_order_id + Cardinality(accepted)]_vars

\* A batch whose first submission failed and whose second was accepted.
C6_Witness ==
    /\ exec_log.start = "connected"
    /\ Len(exec_log.lines) = 2
    /\ exec_log.lines[1].kind = "failed"
    /\ exec_log.lines[2].kind = "submitted"
    /\ Len(TheValue(res).orders) = 1
    /\ ~IsSome(tracking[exec_log.lines[1].ticker])

\* C7: without a broker connection, or without account info, execute_orders
\* returns an error marker, no orders and cash_left = capital; it submits no
\* order and leaves the account and the tracking map alone; the cycle goes on
\* to its summary, which reports no executed order, and stores no trade.
C7_ConnectionFailure ==
    [][/\ (/\ pc = "execute" /\ pc' # "execute"
           /\ exec_log'.start \in {"no_connection", "no_account_info"}) =>
              /\ TheValue(res').error
              /\ TheValue(res').orders = << >>
              /\ TheValue(res').cash_left = cfg.capital_eur
              /\ exec_log'.lines = << >>
              /\ tracking' = tracking /\ held' = held /\ next_order_id' = next_order_id
              /\ pc' = "summary"
       /\ (pc = "summary" /\ pc' # "summary" /\ TheValue(res).error) =>
              /\ TheValue(summary').executed_count = 0
              /\ TheValue(summary').cash_left = cfg.capital_eur
              /\ trades_file' = trades_file
              /\ tracking' = tracking /\ held' = held /\ next_order_id' = next_order_id
              /\ pc' = "done"]_vars

\* A cycle with signals that found no broker connection and wrote its summary.
C7_Witness ==
    /\ pc = "done"
    /\ signals # << >>
    /\ exec_log.start = "no_connection"
    /\ TheValue(res).error
    /\ TheValue(summary).executed_count = 0

----------------------------------------------------------------------------
(* Properties of optimize_strategy (checked under SpecOpt) *)

\* C10: in live mode, however often optimize_strategy is applied to its own
\* output and whatever the base min_sentiment, a call that applied an
\* increase_sentiment_threshold recommendation leaves min_sentiment <= 0.7,
\* and one that applied lower_sentiment_threshold leaves it >= 0.2.
C10_SentimentWithinLimits ==
    (~paper_mode /\ applied.ready) =>
        /\ (\E i \in DOMAIN applied.adjustments :
                applied.adjustments[i] = "increase_sentiment_threshold")
              => params.min_sentiment <= 70
        /\ (\E i \in DOMAIN applied.adjustments :
                applied.adjustments[i] = "lower_sentiment_threshold")
              => params.min_sentiment >= 20

\* A live call that applied increase_sentiment_threshold and left the
\* threshold on the ceiling.
C10_Witness ==
    /\ ~paper_mode
    /\ applied.ready
    /\ applied.adjustments = << "increase_sentiment_threshold" >>
    /\ params.min_sentiment = 70

----------------------------------------------------------------------------
(* Properties of should_pause_trading (checked under SpecPause) *)

----------------------------------------------------------------------------
(* Properties of optimize_strategy in paper mode (checked under SpecOpt) *)

\* C12: in paper mode a call of optimize_strategy returns the parameters it
\* was given with min_sentiment set to 0.10 and nothing else changed,
\* whatever the recommendations, win rate and best stocks are; it leaves
\* current_params alone and the dict passed in is as it was before the call.
C12_PaperModeFrame ==
    [][paper_mode =>
          /\ params' = [params EXCEPT !.min_sentiment = 10]
          /\ current_params' = current_params
          /\ passed_config' = Some(params)]_vars

\* A paper-mode call made with ready, non-empty recommendations on a base
\* whose min_sentiment was 0.90.
C12_Witness ==
    /\ paper_mode
    /\ applied.ready
    /\ applied.adjustments # << >>
    /\ IsSome(passed_config)
    /\ TheValue(passed_config).min_sentiment = 90
    /\ params.min_sentiment = 10

----------------------------------------------------------------------------
(* Properties of the signal strategies (checked under SpecSig) *)

\* C13: every signal returned by simple_sentiment_momentum and
\* enhanced_strategy_with_insights (boosted and weekend-only signals
\* included) has 0 <= strength <= 1, for every sentiment feed, min_sentiment
\* and insight confidence.
C13_StrengthInUnitInterval ==
    IsSome(sig_out) =>
        \A i \in 1..Len(TheValue(sig_out).signals) :
            LET strength == TheValue(sig_out).signals[i].strength
            IN  0 <= strength.num /\ strength.num <= 100 * strength.den

\* C14: simple_sentiment_momentum returns a signal for a symbol only if the
\* price feed has a column for it with at least momentum_window + 1
\* observations and the average sentiment is at least min_sentiment; below
\* min_sentiment it returns no signal at all.
C14_SignalsNeedFeedAndSentiment ==
    (IsSome(sig_out) /\ TheValue(sig_out).fn = "simple") =>
        LET a == TheValue(sig_in)
            items == a.feed.news \o a.feed.reddit
            enough_sentiment ==
                IF Len(items) = 0 THEN 0 >= a.min_sentiment
                ELSE SumSeq(items) >= a.min_sentiment * Len(items)
            observations(t) ==
                Cardinality({k \in 1..Len(TheValue(a.prices[t])) :
                               TheValue(a.prices[t])[k] # NaN})
        IN  \A i \in 1..Len(TheValue(sig_out).signals) :
                LET t == TheValue(sig_out).signals[i].ticker
                IN  /\ IsSome(a.prices[t])
                    /\ observations(t) >= a.momentum_window + 1
                    /\ enough_sentiment

\* A call that returned a signal for MSFT and none for AAPL, whose column
\* is rising but too short for the window.
C14_Witness ==
    /\ IsSome(sig_out)
    /\ TheValue(sig_out).fn = "simple"
    /\ Len(TheValue(sig_out).signals) = 1
    /\ TheValue(sig_out).signals[1].ticker = "MSFT"
    /\ TheValue(sig_in).prices["AAPL"] = Some(<< 10, NaN, 11, 12 >>)
    /\ TheValue(sig_in).momentum_window = 3

----------------------------------------------------------------------------
(* Properties of TradeMemory under store failures (checked under SpecMem) *)

\* C15: a failed write makes store_trade a no-op: when _save_json logged a
\* failure, the stored ledger is what it was before the call.
C15_FailedWriteIsNoOp ==
    [][(next_order_id' = next_order_id + 1 /\ mem_log'.save_failed)
          => trades_file' = trades_file]_vars

----------------------------------------------------------------------------
(* Properties of the scheduler (checked under SpecSched) *)

\* C16: no failure inside a cycle stops the scheduler: after every job,
\* whatever went wrong in it, the scheduler is still running and the next
\* scheduled job can start.
C16_SchedulerSurvivesFailures == scheduler = "running"

----------------------------------------------------------------------------
(* Properties of PerformanceAnalyzer (checked under SpecAn) *)

\* What C17 prescribes for the recommendations recs over a learnings file:
\* the tally is taken by position over the last ten entries.
C17_Prescribed(file, recs) ==
    LET l == IF file.state = "ok" THEN file.data ELSE << >>
        n == Len(l)
        occurrences(a) == Cardinality({i \in 1..n : i > n - 10 /\ l[i].action = a})
        adj == recs.adjustments
    IN  IF n < 5 THEN ~recs.ready
        ELSE /\ recs.ready
             /\ \A a \in Actions :
                    occurrences(a) >= 2 <=> \E j \in 1..Len(adj) : adj[j].action = a
             /\ \A j \in 1..Len(adj) :
                    adj[j].confidence =
                        IF occurrences(adj[j].action) >= 3 THEN "high" ELSE "medium"
             /\ \A j, k \in 1..Len(adj) : adj[j].action = adj[k].action => j = k

\* C17: get_strategy_recommendations is not ready with fewer than 5 stored
\* learnings; otherwise it looks at the 10 most recent learnings only and
\* returns an adjustment for an action exactly when the action occurs at
\* least twice among them, with confidence high from 3 occurrences on and
\* medium otherwise.
C17_RecommendationsFromLastTen ==
    [][an_recs' # an_recs => C17_Prescribed(learnings_file, TheValue(an_recs'))]_vars

\* Recommendations over more than ten learnings in which an action stored
\* twice is no longer recommended and another is recommended with medium
\* confidence.
C17_Witness ==
    /\ IsSome(an_recs)
    /\ learnings_file.state = "ok"
    /\ Len(learnings_file.data) > 10
    /\ C17_Prescribed(learnings_file, TheValue(an_recs))
    /\ \E a \in Actions :
          /\ Cardinality({i \in 1..Len(learnings_file.data) :
                            learnings_file.data[i].action = a}) >= 2
          /\ \A j \in 1..Len(TheValue(an_recs).adjustments) :
                TheValue(an_recs).adjustments[j].action # a
    /\ \E j \in 1..Len(TheValue(an_recs).adjustments) :
          TheValue(an_recs).adjustments[j].confidence = "medium"

\* The trades of a ledger file that lie in the window of an analysis.
C18_Window(file, days, at) ==
    IF file.state = "ok"
      THEN {i \in 1..Len(file.data) : file.data[i].timestamp >= at - days * 24}
      ELSE {}

C19_WinRate ==
    IsSome(an_metrics) =>
        LET m == TheValue(an_metrics).ret
            window == C18_Window(trades_file, TheValue(an_metrics).days,
                                 TheValue(an_metrics).at)
            winners == {i \in window : trades_file.data[i].pnl > 0}
        IN  /\ m.total_trades = Cardinality(window)
            /\ IF Cardinality(window) > 0
                 THEN /\ m.win_rate.den > 0
                      /\ m.win_rate.num * Cardinality(window)
                         = Cardinality(winners) * m.win_rate.den
                      /\ m.winning_trades = Some(Cardinality(winners))
                 ELSE m.win_rate.num = 0

\* An analysis of three recent trades, one won, one lost, one at pnl 0.
C19_Witness ==
    /\ IsSome(an_metrics)
    /\ TheValue(an_metrics).ret.total_trades = 3
    /\ TheValue(an_metrics).ret.winning_trades = Some(1)
    /\ TheValue(an_metrics).ret.losing_trades = Some(1)
    /\ TheValue(an_metrics).ret.win_rate = Frac(1, 3)

----------------------------------------------------------------------------
(* Properties of execute_orders on three signals (checked under SpecExec) *)

----------------------------------------------------------------------------
(* The generator without price data (checked under SpecSig) *)

\* C21: when no symbol has price data, simple_sentiment_momentum falls back
\* to sentiment only: with avg_sentiment >= min_sentiment it returns BUY
\* signals for the first N >= 1 symbols of the universe, each of strength
\* min(avg_sentiment, 1) and momentum 0, and with avg_sentiment below
\* min_sentiment it returns no signal.
C21_SentimentOnlyFallback ==
    (/\ IsSome(sig_out)
     /\ TheValue(sig_out).fn = "simple"
     /\ \A t \in Tickers : ~IsSome(TheValue(sig_in).prices[t])) =>
        LET a == TheValue(sig_in)
            out == TheValue(sig_out)
        IN  IF FracLeq(Frac(a.min_sentiment, 1), out.avg_sent)
              THEN /\ Len(out.signals) \in 1..Len(a.tickers)
                   /\ \A i \in 1..Len(out.signals) :
                        /\ out.signals[i].ticker = a.tickers[i]
                        /\ out.signals[i].action = "BUY"
                        /\ out.signals[i].strength = FracMin(out.avg_sent, Frac(100, 1))
                        /\ out.signals[i].momentum.num = 0
              ELSE out.signals = << >>

----------------------------------------------------------------------------
(* Cycles sharing the ledger (checked under SpecConc) *)

\* C22: as long as no store_trade call began while another one was under
\* way (and no load or save failed), every trade whose store_trade call has
\* returned is in the ledger; with overlapping calls a returned trade can be
\* missing from it.
C22_NoLossWithoutOverlap ==
    (~overlapped /\ ~io_failed) =>
        \A id \in returned :
            \E i \in 1..Len(Ledger(trades_file)) : Ledger(trades_file)[i].order_id = id

\* Both cycles have returned from overlapping store_trade calls, every load
\* and save succeeded, and a trade one of them stored is not in the ledger.
C22_Witness ==
    /\ overlapped
    /\ ~io_failed
    /\ \A c \in Cycles : writer[c].pc = "idle"
    /\ \E id \in returned :
          \A i \in 1..Len(Ledger(trades_file)) : Ledger(trades_file)[i].order_id # id

----------------------------------------------------------------------------
(* Drift of take profit and stop loss (checked under SpecOpt) *)

\* C23: the take-profit and stop-loss adjustments are bounded: however often
\* optimize_strategy is applied to its previous output, take_profit_pct
\* stays at or below a fixed upper bound and stop_loss_pct at or above a
\* fixed lower bound.  The bounds tried are the values one adjustment of the
\* configured percentages gives (1.2 times the take profit, 0.9 times the
\* stop loss).
C23_TakeProfitStopLossBounded ==
    /\ FracLeq(params.take_profit_pct, Frac(TakeProfitPct * 12, 10))
    /\ FracLeq(Frac(StopLossPct * 9, 10), params.stop_loss_pct)

----------------------------------------------------------------------------
(* The stored performance snapshot (checked under SpecAn) *)

\* C24: after every analyze_performance call, also one that found no recent
\* trade, get_performance_metrics returns the metrics that call computed
\* (its total_trades, total_pnl and win_rate) and nothing of an earlier
\* analysis.
C24_SnapshotOverwritten ==
    IsSome(an_metrics) =>
        LET m == TheValue(an_metrics).ret
            stored == get_performance_metrics(performance_file, TRUE)
        IN  /\ stored.total_trades = Some(m.total_trades)
            /\ stored.total_pnl = Some(m.total_pnl)
            /\ stored.win_rate = Some(m.win_rate)

----------------------------------------------------------------------------
(* The signal filter (checked under SpecFilter) *)

\* C25: filter_signals_by_learning filters only in conservative mode, where
\* it returns, in input order and unmodified, exactly the signals whose
\* symbol is among the best performers (or there are none) and whose
\* strength is at least the min_sentiment the cycle's optimize_strategy call
\* produced; in exploration mode it returns every input signal.
C25_FiltersOnlyWhenConservative ==
    (IsSome(filter_out) /\ IsSome(passed_config)) =>
        LET best == get_best_performing_stocks(trades_file, BestStocksLimit, TRUE)
            kept(signal) ==
                /\ (best = << >> \/ \E i \in 1..Len(best) : best[i] = signal.ticker)
                /\ FracLeq(Frac(params.min_sentiment, 1), signal.strength)
        IN  IF paper_mode
              THEN TheValue(filter_out) = TheValue(filter_in)
              ELSE TheValue(filter_out) = SelectSeq(TheValue(filter_in), kept)

----------------------------------------------------------------------------
(* Cash accounting of execute_orders (checked under SpecExec) *)

\* C26: in a call of execute_orders that reached the broker account, the
\* cash is never negative, before any signal or at the end; every order
\* handed to the broker, accepted or rejected, is for a positive amount of
\* at most capital * max_alloc_per_trade; the notionals of the executed
\* orders and cash_left add up to min(capital, buying_power), within half a
\* cent per rounded amount; and every signal has exactly one log line, so
\* it was submitted at most once.
C26_CashAccounting ==
    exec_log.start = "connected" =>
        LET L == exec_log.lines
            orders == TheValue(res).orders
            cash0 == Min(cfg.capital_eur, TheValue(exec_log.buying_power))
            notionals == [k \in 1..Len(orders) |-> orders[k].notional]
            handed == {i \in DOMAIN L : L[i].kind \in {"submitted", "failed"}}
            drift == SumSeq(notionals) + TheValue(res).cash_left - cash0
        IN  /\ TheValue(res).cash_left >= 0
            /\ \A i \in DOMAIN L : L[i].cash_before >= 0
            /\ \A i \in handed :
                  /\ L[i].alloc > 0
                  /\ 100 * L[i].alloc <= cfg.capital_eur * cfg.max_alloc_per_trade
            /\ \A k \in 1..Len(orders) : orders[k].notional > 0
            /\ 2 * drift <= (Len(orders) + 1) * Cents(1)
            /\ -2 * drift <= (Len(orders) + 1) * Cents(1)
            /\ Len(L) = Len(signals)
            /\ \A i \in DOMAIN L : L[i].ticker = signals[i].ticker
            /\ Len(orders) <= Len(signals)

\* Buying power 250.50 and three signals, the second one rejected by the
\* broker: orders of 250.00 and 0.50 were placed and no cash is left.
C26_Witness ==
    /\ exec_log.start = "connected"
    /\ exec_log.buying_power = Some(Dollars(250) + Cents(50))
    /\ Len(exec_log.lines) = 3
    /\ exec_log.lines[1].kind = "submitted"
    /\ exec_log.lines[2].kind = "failed"
    /\ exec_log.lines[3].kind = "submitted"
    /\ TheValue(res).orders[1].notional = Dollars(250)
    /\ TheValue(res).orders[2].notional = Cents(50)
    /\ TheValue(res).cash_left = 0

----------------------------------------------------------------------------
(* What the learning system sees of the cycles' trades (checked under
   SpecLearn) *)

----------------------------------------------------------------------------
(* The entry time of an open position (checked under Spec) *)

\* C28: the tracked entry time of a symbol does not change while its
\* position stays open: in every step that leaves a tracked symbol held,
\* its entry time is afterwards what it was before, also when a further BUY
\* of the symbol was accepted.
C28_EntryTimeIsStable ==
    [][\A s \in Tickers :
          (s \in held /\ s \in held' /\ IsSome(get_position_entry_time(tracking, s)))
             => get_position_entry_time(tracking', s) = get_position_entry_time(tracking, s)]_vars

----------------------------------------------------------------------------
(* The learning log under repeated analyses (checked under SpecAn) *)

\* C29: an analyze_performance call that repeats the previous one (same
\* period, same recent trades, no trade recorded in between) adds no
\* learning, so what get_strategy_recommendations answers is the same
\* before and after it.
C29_LearningsFollowTrades ==
    [][(/\ IsSome(an_metrics)
        /\ IsSome(an_metrics')
        /\ an_recs' = an_recs
        /\ clock' = clock
        /\ trades_file' = trades_file
        /\ TheValue(an_metrics').days = TheValue(an_metrics).days
        /\ C18_Window(trades_file, TheValue(an_metrics).days, TheValue(an_metrics).at)
           = C18_Window(trades_file, TheValue(an_metrics').days, TheValue(an_metrics').at))
       => /\ learnings_file' = learnings_file
          /\ get_strategy_recommendations(learnings_file', TRUE)
             = get_strategy_recommendations(learnings_file, TRUE)]_vars

----------------------------------------------------------------------------
(* The breakers of LiveBroker (checked under SpecLive) *)

\* C30: in every step of a broker, trades_today stays at or below
\* max_trades_per_day and grows only by one and only in a place_order call
\* that executed an order; a call executes an order only if live trading is
\* enabled, STOP_TRADING.txt does not exist, consecutive_losses is below
\* max_consecutive_losses, the daily loss limit is not exceeded and the
\* broker was not constructed with STOP_TRADING.txt present; and live
\* trading, once disabled, is never enabled again.
C30_BreakersHold ==
    [][LET b == TheValue(broker)
           after == TheValue(broker')
           call == TheValue(TheValue(live_hist').last)
           grew == after.trades_today > b.trades_today
       IN  /\ after.trades_today <= after.max_trades_per_day
           /\ grew =>
                 /\ after.trades_today = b.trades_today + 1
                 /\ call.executed
                 /\ b.live_trading_enabled
                 /\ ~kill_switch
                 /\ b.trades_today < b.max_trades_per_day
                 /\ b.consecutive_losses < b.max_consecutive_losses
                 /\ 1000 * b.daily_pnl >= -(b.daily_loss_limit * call.account_value)
                 /\ ~TheValue(live_hist).killed_at_construction
           /\ (live_hist' # live_hist /\ call.executed) => grew
           /\ ~b.live_trading_enabled => ~after.live_trading_enabled]_vars

\* A broker that was constructed while STOP_TRADING.txt existed: the file
\* is gone, place_order was called and answered with a simulated order.
C30_Witness ==
    /\ IsSome(live_hist)
    /\ TheValue(live_hist).killed_at_construction
    /\ ~kill_switch
    /\ TheValue(live_hist).last
         = Some([executed |-> FALSE, reason |-> "Simulated order",
                 account_value |-> Dollars(1000)])

====
